---- MODULE Spec2Model ----
(***************************************************************************)
(* Capture side of the speech-to-text pipeline: SpeechToTextApp's          *)
(* listening toggle and detection thread (core/app.py) and                 *)
(* SpeechDetector.start_detection (core/speech_detector.py): stream open   *)
(* and fallback, calibration, the adaptive threshold and the Idle/Speaking *)
(* segmentation loop.                                                      *)
(*                                                                         *)
(* Units: times are integer milliseconds (the code uses float seconds),    *)
(* energies are integers, sentence_energy_threshold is in tenths.          *)
(* A captured frame is represented by its read index (1, 2, ...), so two   *)
(* frames are equal exactly when they are the same captured frame.         *)
(***************************************************************************)
EXTENDS Integers, Sequences, FiniteSets, TLC

\* ---------------------------------------------------------------- bounds
\* Frames read by the main loop in the single session of SpecDetector.
MaxFrames == 5
\* Frames read by the main loop over a whole run of Spec.
MaxAppFrames == 1
\* Detection threads started over a whole run of Spec.
MaxSessions == 2
\* Settings-dialog device changes and day-long waits over the whole run.
MaxChanges == 1
\* Frames read by the main loop in the session of ConsumerSpec.
MaxQueueFrames == 4
\* Frames read by the main loop in the session of BufferSpec.
MaxBufferFrames == 6
\* Frames of the session that fills the smoothing window.
MaxWindowFrames == 11
\* Frames read by the main loop over the sessions of SessionsSpec.
MaxSessionFrames == 4

\* ------------------------------------------------------ program constants
CALIBRATION_DURATION_CHUNKS == 20
ENERGY_SMOOTHING_WINDOW == 10
CHUNK_SIZE == 1024

\* Python's None for the optional integer fields.
NoneVal == 0 - 1

\* 24 hours, the age limit of a cached calibration (86400 s, in ms).
CacheMaxAge == 86400 * 1000

\* ------------------------------------------------------------ input sets
\* Energy (mean absolute amplitude) of a frame read by the main loop.
Energies == {0, 1200}
\* Ambient level during one calibration run: every calibration frame of a
\* run has this energy, so the mean over the run is the level itself.
NoiseLevels == {0, 200}
\* Wall-clock time taken by one blocking read of the main loop.
FrameTimes == {500, 2500}
\* input_device_index values: None (system default) or a device index.
Devices == {NoneVal, 0}

\* Settings() defaults, with the durations at validated values that let
\* every cut be reached within MaxFrames frames.
DefaultSettings ==
    [ sample_rate               |-> 16000,
      silence_threshold         |-> 500,
      pre_padding               |-> 100,
      silence_padding           |-> 100,
      min_phrase_duration       |-> 200,
      sentence_pause_threshold  |-> 1000,
      sentence_energy_threshold |-> 3,
      min_sentence_length       |-> 800,
      max_sentence_length       |-> 5000,
      speech_energy_threshold   |-> 3,
      input_device_index        |-> NoneVal,
      calibration_energy        |-> NoneVal,
      calibration_timestamp     |-> 0,
      last_calibrated_device    |-> NoneVal ]

\* Settings loaded from a file written by an earlier run that calibrated on
\* device 0 an hour before this run starts.
CalibratedSettings ==
    [DefaultSettings EXCEPT !.calibration_energy = 200,
                            !.calibration_timestamp = 2 * CacheMaxAge - 3600 * 1000,
                            !.last_calibrated_device = 0,
                            !.silence_threshold = 600]

\* The settings of a detailed session: device 0 configured, with the
\* default factors (threshold 600 over a baseline of 200), or with
\* speech_energy_threshold 5 (threshold 1000) and sentence_energy_threshold
\* at the top of its validated range, or with the stored silence_threshold
\* at the bottom of its validated range (config_manager.py line 51).
InitialSettings ==
    { [DefaultSettings EXCEPT !.input_device_index = 0],
      [DefaultSettings EXCEPT !.input_device_index = 0,
                              !.speech_energy_threshold = 5,
                              !.sentence_energy_threshold = 10],
      [DefaultSettings EXCEPT !.input_device_index = 0,
                              !.silence_threshold = 100] }

VARIABLES
    \* SpeechToTextApp
    active,             \* self.active
    detection_event,    \* self.detection_event.is_set()
    app_segment_counter,\* self.segment_counter of the app
    force_stop_pending, \* QTimer.singleShot(0, force_stop_listening_from_thread) queued
    notification,       \* title of the last signal_show_notification
    settings,           \* the Settings object shared by app and detector
    save_calls,         \* config_manager.save_settings calls made by the detector
    \* SpeechDetector
    segment_counter,    \* self.segment_counter of the detector
    speech_queue,       \* self.speech_queue
    energy_queue,       \* self.energy_queue
    put_may_fail,       \* whether speech_queue.put can raise
    \* start_detection: position and locals of the detection thread
    pc,
    device_index,
    chunks,             \* pre_padding_chunks, silence_padding_chunks, min_phrase_chunks
    stream,             \* "none", "open", "closed"
    audio,              \* "none", "live", "terminated" (the PyAudio instance)
    baseline_energy,
    baseline_frames,
    circular_buffer,
    current_energy_levels,
    frames,
    is_speaking,
    silent_chunks,
    recorded_chunks,
    sentence_start_time,
    last_speech_time,
    \* environment
    now,                \* time.time()
    noise,              \* ambient level of the current session
    nread,              \* frames read by the main loop so far (frame identity)
    limits,             \* the run's bounds and the sets its frames are drawn from
    threads,            \* threads started and not yet finished, of each kind
    changes,            \* device changes and day-long waits so far
    \* history
    session,            \* record of what the current session did
    last_frame,         \* how the main loop evaluated the last frame it processed
    seg_log,            \* one entry per _process_speech_segment call
    \* process_speech_queue: the consumer thread
    is_processing_queue,     \* self.is_processing_queue
    cpc,                     \* position of the consumer thread
    segment,                 \* the segment taken from speech_queue (None: none)
    current_time,
    last_transcription_time,
    sentence_buffer,         \* cleaned fragments waiting to be inserted
    text_sink,               \* the strings passed to insert_text, in order
    consumed,                \* history: one entry per segment taken
    arrivals,                \* history: the fragments appended to sentence_buffer
    sink_log                 \* history: the fragments of each inserted string

consumerVars == <<is_processing_queue, cpc, segment, current_time,
                  last_transcription_time, sentence_buffer, text_sink,
                  consumed, arrivals, sink_log>>
appVars == <<active, detection_event, app_segment_counter, force_stop_pending, notification>>
detectorVars == <<segment_counter, speech_queue, energy_queue, put_may_fail>>
loopVars == <<circular_buffer, current_energy_levels, frames, is_speaking,
              silent_chunks, recorded_chunks, sentence_start_time, last_speech_time>>
threadVars == <<pc, device_index, chunks, stream, audio, baseline_energy, baseline_frames>>
envVars == <<now, noise, nread, limits, threads, changes, consumerVars>>
vars == <<appVars, settings, save_calls, detectorVars, threadVars, loopVars, envVars,
          session, last_frame, seg_log>>
histVars == <<session, last_frame, seg_log>>

\* ---------------------------------------------------------------- helpers
Max(a, b) == IF a >= b THEN a ELSE b
Min(a, b) == IF a <= b THEN a ELSE b

RECURSIVE SumSeq(_)
SumSeq(s) == IF s = <<>> THEN 0 ELSE Head(s) + SumSeq(Tail(s))

\* int(seconds * RATE / CHUNK) for a duration given in ms.
PaddingChunks(ms, rate) == (ms * rate) \div (1000 * CHUNK_SIZE)

\* np.mean over the calibration frames' mean absolute amplitudes.
BaselineMean(fs) == SumSeq(fs) \div Len(fs)


\* ------------------------------------------------- SpeechDetector helpers
\* CacheDiscarded without the age test.
CacheDiscardedByDeviceOnly(s, dev, t) == s.last_calibrated_device # dev

\* Lines 94-98: the cached calibration is discarded because the device
\* changed or the cache is older than 24 hours.
CacheDiscarded(s, dev, t) ==
    \/ s.last_calibrated_device # dev
    \/ t - s.calibration_timestamp > CacheMaxAge

\* Lines 86-102: baseline_energy after the cache lookup (None: calibrate).
CachedBaseline(s, dev, t) ==
    IF CacheDiscarded(s, dev, t) THEN NoneVal ELSE s.calibration_energy

\* Line 136-137: the clamped adaptive threshold.
AdaptiveThreshold(b, f) == Max(300, Min(b * f, 1000))

\* Line 135: "if baseline_energy:" is false for None and for 0.
Truthy(b) == b # NoneVal /\ b # 0

\* Lines 135-138: silence_threshold after the threshold step.
ThresholdAfter(s, b) ==
    IF Truthy(b) THEN AdaptiveThreshold(b, s.speech_energy_threshold)
    ELSE s.silence_threshold

\* PushEnergy that never removes the oldest energy.
PushEnergyUnbounded(levels, e) == Append(levels, e)

\* Lines 164-166: the smoothing window after appending one energy.
PushEnergy(levels, e) ==
    LET l1 == Append(levels, e)
    IN  IF Len(l1) > ENERGY_SMOOTHING_WINDOW THEN Tail(l1) ELSE l1

\* Line 173: smoothed_energy > silence_threshold, smoothed = mean(levels).
IsSpeech(levels, thr) == SumSeq(levels) > thr * Len(levels)

\* Line 211: smoothed_energy < silence_threshold * sentence_energy_threshold.
EnergyDropped(levels, s) ==
    SumSeq(levels) * 10 < s.silence_threshold * s.sentence_energy_threshold * Len(levels)

\* SplitReason without the "max length" test.
SplitReasonWithoutMax(silence, duration, levels, s) ==
    IF silence >= s.sentence_pause_threshold THEN "long pause"
    ELSE IF 2 * silence >= s.sentence_pause_threshold /\ EnergyDropped(levels, s)
         THEN "energy drop"
    ELSE ""

\* SplitReason with the "max length" test ahead of the "long pause" test.
SplitReasonMaxFirst(silence, duration, levels, s) ==
    IF duration >= s.max_sentence_length THEN "max length"
    ELSE IF silence >= s.sentence_pause_threshold THEN "long pause"
    ELSE IF 2 * silence >= s.sentence_pause_threshold /\ EnergyDropped(levels, s)
         THEN "energy drop"
    ELSE ""

\* Lines 200-213: split_reason ("" when should_split stays False).
SplitReason(silence, duration, levels, s) ==
    IF silence >= s.sentence_pause_threshold THEN "long pause"
    ELSE IF duration >= s.max_sentence_length THEN "max length"
    ELSE IF 2 * silence >= s.sentence_pause_threshold /\ EnergyDropped(levels, s)
         THEN "energy drop"
    ELSE ""

\* SentenceCut with max_sentence_length in place of min_sentence_length.
SentenceCutAtMax(reason, duration, s) ==
    reason # "" /\ duration >= s.max_sentence_length

\* Line 215: the sentence-boundary cut is taken.
SentenceCut(reason, duration, s) ==
    reason # "" /\ duration >= s.min_sentence_length

\* Line 232: the end-of-speech condition.
EndOfSpeech(silent, recorded, c) ==
    silent >= c.silence_padding_chunks /\ recorded >= c.min_phrase_chunks

\* LongEnough that counts the frames recorded since the onset frame only.
LongEnoughAfterOnset(fs, c) == Len(fs) - 2 > c.min_phrase_chunks

\* Line 233: the buffer is long enough to be emitted.
LongEnough(fs, c) == Len(fs) > c.min_phrase_chunks

\* ChunkParams with min_phrase_chunks computed from silence_padding.
ChunkParamsCopied(s) ==
    [ pre_padding_chunks     |-> PaddingChunks(s.pre_padding, s.sample_rate),
      silence_padding_chunks |-> PaddingChunks(s.silence_padding, s.sample_rate),
      min_phrase_chunks      |-> PaddingChunks(s.silence_padding, s.sample_rate) ]

\* Lines 55-57: the chunk parameters of a session.
ChunkParams(s) ==
    [ pre_padding_chunks     |-> PaddingChunks(s.pre_padding, s.sample_rate),
      silence_padding_chunks |-> PaddingChunks(s.silence_padding, s.sample_rate),
      min_phrase_chunks      |-> PaddingChunks(s.min_phrase_duration, s.sample_rate) ]

\* SpeechSegment as built by _process_speech_segment (lines 312-317).
Segment(audio_data, rate, timestamp, id) ==
    [ audio_data |-> audio_data, sample_rate |-> rate,
      timestamp |-> timestamp, segment_id |-> id ]

\* app.py 350: segment = None, no segment in the consumer's hands.
NoSegment == Segment(<<>>, 0, 0, NoneVal)

\* History records: the last frame the state machine processed ...
NoFrame ==
    [ n |-> 0, session |-> 0, was_speaking |-> FALSE, speaking |-> FALSE,
      energy |-> 0, levels |-> <<>>, threshold |-> 0, silence |-> 0, duration |-> 0,
      silent |-> 0, recorded |-> 0, buffered |-> 0, reason |-> "", cut |-> "none" ]

\* ... and the session the detection thread is running (id 0: none yet).
NoSession ==
    [ id |-> 0, device |-> NoneVal, prev_device |-> NoneVal, opens |-> 0,
      lookup |-> "none", cache |-> <<NoneVal, 0, NoneVal>>, lookup_time |-> 0,
      reads |-> FALSE, calibrated |-> FALSE, baseline |-> NoneVal,
      threshold_before |-> 0, speech_seen |-> FALSE, processed |-> 0, puts |-> 0,
      onset_ring |-> <<>>, onset_frame |-> 0, failed_speaking |-> FALSE,
      nread_at_failure |-> 0, queued_at_failure |-> 0,
      prev_profiled |-> FALSE, prev_calibrated |-> FALSE, prev_baseline |-> NoneVal,
      error_reported |-> FALSE,
      settings_at_start |-> DefaultSettings, saves_at_start |-> 0,
      loop_settings |-> DefaultSettings,
      end |-> "" ]

\* ------------------------------------------------------------------- Init
InitCommon ==
    /\ active = FALSE
    /\ detection_event = FALSE
    /\ app_segment_counter = 0
    /\ force_stop_pending = FALSE
    /\ notification = "none"
    /\ save_calls = 0
    /\ segment_counter = 0
    /\ speech_queue = <<>>
    /\ energy_queue = <<>>
    /\ pc = "none"
    /\ device_index = NoneVal
    /\ chunks = ChunkParams(settings)
    /\ stream = "none"
    /\ audio = "none"
    /\ baseline_energy = NoneVal
    /\ baseline_frames = <<>>
    /\ circular_buffer = <<>>
    /\ current_energy_levels = <<>>
    /\ frames = <<>>
    /\ is_speaking = FALSE
    /\ silent_chunks = 0
    /\ recorded_chunks = 0
    /\ sentence_start_time = NoneVal
    /\ last_speech_time = NoneVal
    /\ now = 2 * CacheMaxAge
    /\ noise = 0
    /\ nread = 0
    /\ changes = 0
    /\ threads = [detection |-> 0, consumer |-> 0]
    /\ session = NoSession
    /\ last_frame = NoFrame
    /\ seg_log = <<>>
    /\ is_processing_queue = FALSE
    /\ cpc = "none"
    /\ segment = NoSegment
    /\ current_time = NoneVal
    /\ last_transcription_time = NoneVal
    /\ sentence_buffer = <<>>
    /\ text_sink = <<>>
    /\ consumed = <<>>
    /\ arrivals = <<>>
    /\ sink_log = <<>>

\* The application as wired in app.py: speech_queue is an unbounded
\* queue.Queue(), whose put never raises.
Init ==
    /\ settings \in {DefaultSettings, CalibratedSettings}
    /\ InitCommon
    /\ put_may_fail = FALSE
    /\ limits = [frames |-> MaxAppFrames, sessions |-> MaxSessions, changes |-> MaxChanges,
                 energies |-> {1200}, times |-> {500},
                 noises |-> NoiseLevels]


\* ------------------------------------------------------- SpeechToTextApp
ThreadAlive == pc \notin {"none", "done"}

\* ToggleOn without the is_alive test: a thread is started every time.
ToggleOnAlwaysStarts ==
    /\ ~active
    /\ ThreadAlive \/ session.id < limits.sessions
    /\ active' = TRUE
    /\ detection_event' = FALSE
    /\ notification' = "Listening Started"
    /\ pc' = "start"
    /\ threads' = [threads EXCEPT !.detection = @ + 1]
    /\ UNCHANGED <<app_segment_counter, force_stop_pending, settings, save_calls,
                   detectorVars, device_index, chunks, stream, audio,
                   baseline_energy, baseline_frames, loopVars,
                   now, noise, nread, limits, consumerVars, changes, histVars>>

\* toggle_listening (app.py 234-280), listening switched on.
ToggleOn ==
    /\ ~active
    /\ ThreadAlive \/ session.id < limits.sessions
    /\ active' = TRUE
    /\ detection_event' = FALSE
    /\ notification' = "Listening Started"
    /\ IF ~ThreadAlive
       THEN /\ pc' = "start"      \* a new detection thread is started
            /\ threads' = [threads EXCEPT !.detection = @ + 1]
       ELSE /\ pc' = pc           \* "Detection thread already running?"
            /\ threads' = threads
    /\ UNCHANGED <<app_segment_counter, force_stop_pending, settings, save_calls,
                   detectorVars, device_index, chunks, stream, audio,
                   baseline_energy, baseline_frames, loopVars,
                   now, noise, nread, limits, consumerVars, changes, histVars>>

\* toggle_listening, listening switched off.
ToggleOff ==
    /\ active
    /\ active' = FALSE
    /\ detection_event' = TRUE
    /\ notification' = "Listening Stopped"
    /\ UNCHANGED <<app_segment_counter, force_stop_pending, settings, save_calls,
                   detectorVars, threadVars, loopVars,
                   now, noise, nread, limits, threads, consumerVars, changes, histVars>>

\* force_stop_listening_from_thread (app.py 313-321), run by the Qt loop.
ForceStop ==
    /\ force_stop_pending
    /\ force_stop_pending' = FALSE
    /\ IF active
       THEN /\ active' = FALSE
            /\ notification' = "Error"
            /\ session' = [session EXCEPT !.error_reported = TRUE]
       ELSE UNCHANGED <<active, notification, session>>
    /\ UNCHANGED <<detection_event, app_segment_counter, settings, save_calls,
                   detectorVars, threadVars, loopVars, envVars, last_frame, seg_log>>

\* show_settings accepted with another input device (app.py 480-497,
\* settings_dialog.py 429), while no detection thread is running.
ChangeDevice(d) ==
    /\ changes < limits.changes
    /\ ~ThreadAlive /\ ~active
    /\ d # settings.input_device_index
    /\ changes' = changes + 1
    /\ settings' = [settings EXCEPT !.input_device_index = d]
    /\ save_calls' = save_calls
    /\ notification' = "Settings Updated"
    /\ UNCHANGED <<active, detection_event, app_segment_counter, force_stop_pending,
                   detectorVars, threadVars, loopVars,
                   now, noise, nread, limits, threads, consumerVars, histVars>>

\* Positions of the silence-threshold slider (settings_dialog.py 187-188:
\* 100 to 2000 in steps of 10) with which the dialog is accepted.
ThresholdSliders == {30, 60}

\* show_settings accepted at any time, a session running or not: the
\* dialog copies its values into the settings object it was opened on
\* (settings_dialog.py 430, 464) and the application hands the dialog's
\* object to the detector (app.py 487-497, speech_detector.py 35-37).
AcceptSettings(slider) ==
    /\ changes < limits.changes
    /\ changes' = changes + 1
    /\ settings' = [settings EXCEPT !.silence_threshold = slider * 10]
    /\ save_calls' = save_calls
    /\ notification' = "Settings Updated"
    /\ UNCHANGED <<active, detection_event, app_segment_counter, force_stop_pending,
                   detectorVars, threadVars, loopVars,
                   now, noise, nread, limits, threads, consumerVars, histVars>>

\* dict.get(key, default)
Get(section, key, default) ==
    IF key \in DOMAIN section THEN section[key] ELSE default

\* to_dict that leaves the calibrated device out of the dictionary.
to_dict_without_device(self) ==
    [ audio |->
        [ sample_rate               |-> self.sample_rate,
          silence_threshold         |-> self.silence_threshold,
          input_device_index        |-> self.input_device_index ],
      calibration |->
        [ energy       |-> self.calibration_energy,
          timestamp    |-> self.calibration_timestamp ] ]

\* settings.py 106-145: Settings.to_dict, the sections and keys of the
\* fields the model carries.
to_dict(self) ==
    [ audio |->
        [ sample_rate               |-> self.sample_rate,
          silence_threshold         |-> self.silence_threshold,
          pre_padding               |-> self.pre_padding,
          silence_padding           |-> self.silence_padding,
          min_phrase_duration       |-> self.min_phrase_duration,
          sentence_pause_threshold  |-> self.sentence_pause_threshold,
          sentence_energy_threshold |-> self.sentence_energy_threshold,
          min_sentence_length       |-> self.min_sentence_length,
          max_sentence_length       |-> self.max_sentence_length,
          speech_energy_threshold   |-> self.speech_energy_threshold,
          input_device_index        |-> self.input_device_index ],
      calibration |->
        [ energy       |-> self.calibration_energy,
          timestamp    |-> self.calibration_timestamp,
          device_index |-> self.last_calibrated_device ] ]

\* settings.py 77-85: an int or None is kept as the device index (any
\* other value is converted by int(), None if that fails).
LoadedIndex(loaded_index) ==
    IF loaded_index = NoneVal \/ loaded_index \in Int THEN loaded_index ELSE NoneVal

\* settings.py 53-104: Settings.update from a dictionary; a key or a
\* section that is missing leaves the field as it is.
update(self, settings_dict) ==
    LET audio_section == IF "audio" \in DOMAIN settings_dict
                 THEN settings_dict.audio ELSE <<>>
        calibration_section == IF "calibration" \in DOMAIN settings_dict
                       THEN settings_dict.calibration ELSE <<>>
    IN  [ sample_rate               |-> Get(audio_section, "sample_rate", self.sample_rate),
          silence_threshold         |-> Get(audio_section, "silence_threshold", self.silence_threshold),
          pre_padding               |-> Get(audio_section, "pre_padding", self.pre_padding),
          silence_padding           |-> Get(audio_section, "silence_padding", self.silence_padding),
          min_phrase_duration       |-> Get(audio_section, "min_phrase_duration",
                                            self.min_phrase_duration),
          sentence_pause_threshold  |-> Get(audio_section, "sentence_pause_threshold",
                                            self.sentence_pause_threshold),
          sentence_energy_threshold |-> Get(audio_section, "sentence_energy_threshold",
                                            self.sentence_energy_threshold),
          min_sentence_length       |-> Get(audio_section, "min_sentence_length",
                                            self.min_sentence_length),
          max_sentence_length       |-> Get(audio_section, "max_sentence_length",
                                            self.max_sentence_length),
          speech_energy_threshold   |-> Get(audio_section, "speech_energy_threshold",
                                            self.speech_energy_threshold),
          input_device_index        |-> LoadedIndex(Get(audio_section, "input_device_index",
                                                        self.input_device_index)),
          calibration_energy        |-> Get(calibration_section, "energy", self.calibration_energy),
          calibration_timestamp     |-> Get(calibration_section, "timestamp",
                                            self.calibration_timestamp),
          last_calibrated_device    |-> Get(calibration_section, "device_index",
                                            self.last_calibrated_device) ]

\* settings_dialog.py 32-33: a fresh Settings() is populated from the
\* to_dict() of the current one, and takes its place.
CopySettings ==
    /\ changes < limits.changes
    /\ changes' = changes + 1
    /\ settings' = update(DefaultSettings, to_dict(settings))
    /\ UNCHANGED <<appVars, save_calls, detectorVars, threadVars, loopVars,
                   now, noise, nread, limits, threads, consumerVars, histVars>>

\* More than 24 hours pass while nothing is listening.
DayPasses ==
    /\ changes < limits.changes
    /\ ~ThreadAlive /\ ~active
    /\ changes' = changes + 1
    /\ now' = now + CacheMaxAge + 1
    /\ UNCHANGED <<appVars, settings, save_calls, detectorVars, threadVars, loopVars,
                   noise, nread, limits, threads, consumerVars, histVars>>

\* _listen_and_transcribe up to the call (app.py 294-298) and the head of
\* start_detection (speech_detector.py 49-60, 71-81).
StartDetection ==
    /\ pc = "start"
    /\ pc' = "open"
    /\ app_segment_counter' = 0
    /\ device_index' = settings.input_device_index
    /\ chunks' = ChunkParams(settings)
    /\ stream' = "none"
    /\ audio' = "live"
    /\ baseline_energy' = NoneVal
    /\ baseline_frames' = <<>>
    /\ circular_buffer' = <<>>
    /\ current_energy_levels' = <<>>
    /\ frames' = <<>>
    /\ is_speaking' = FALSE
    /\ silent_chunks' = 0
    /\ recorded_chunks' = 0
    /\ sentence_start_time' = NoneVal
    /\ last_speech_time' = NoneVal
    /\ session' = [NoSession EXCEPT !.id = session.id + 1,
                                    !.device = settings.input_device_index,
                                    !.prev_device = session.device,
                                    !.prev_profiled = session.calibrated
                                                       \/ session.lookup = "cached",
                                    !.prev_calibrated = session.calibrated,
                                    !.prev_baseline = session.baseline,
                                    !.settings_at_start = settings,
                                    !.saves_at_start = save_calls]
    /\ UNCHANGED <<active, detection_event, force_stop_pending, notification,
                   settings, save_calls, detectorVars, envVars, last_frame, seg_log>>


\* -------------------------------------------- start_detection: the stream
\* audio.open succeeds on the configured device (lines 65-69).
OpenStream ==
    /\ pc = "open"
    /\ pc' = "lookup"
    /\ stream' = "open"
    /\ \E l \in limits.noises : noise' = l
    /\ session' = [session EXCEPT !.opens = 1]
    /\ UNCHANGED <<appVars, settings, save_calls, detectorVars, device_index, chunks,
                   audio, baseline_energy, baseline_frames, loopVars,
                   now, nread, limits, threads, consumerVars, changes, last_frame, seg_log>>

\* audio.open raises IOError (lines 250-252, 274-276). With a configured
\* device and an "Invalid input device" message the fallback is tried;
\* otherwise the function returns through the finally block.
OpenFails(invalid_device) ==
    /\ pc = "open"
    /\ IF device_index # NoneVal /\ invalid_device
       THEN pc' = "fallback" /\ session' = [session EXCEPT !.opens = 1]
       ELSE pc' = "finally"
            /\ session' = [session EXCEPT !.opens = 1, !.end = "open error"]
    /\ UNCHANGED <<appVars, settings, save_calls, detectorVars, device_index, chunks,
                   stream, audio, baseline_energy, baseline_frames, loopVars,
                   envVars, last_frame, seg_log>>

\* Lines 254-264: the stream opens on the system default device; the code
\* logs "loop logic needs refactoring. Exiting detection." and leaves the
\* except block, so the finally block runs next.
FallbackOpens ==
    /\ pc = "fallback"
    /\ pc' = "finally"
    /\ stream' = "open"
    /\ session' = [session EXCEPT !.opens = 2, !.end = "fallback ok"]
    /\ UNCHANGED <<appVars, settings, save_calls, detectorVars, device_index, chunks,
                   audio, baseline_energy, baseline_frames, loopVars,
                   envVars, last_frame, seg_log>>

\* Lines 270-273: the default device fails too.
FallbackFails ==
    /\ pc = "fallback"
    /\ pc' = "finally"
    /\ session' = [session EXCEPT !.opens = 2, !.end = "fallback failed"]
    /\ UNCHANGED <<appVars, settings, save_calls, detectorVars, device_index, chunks,
                   stream, audio, baseline_energy, baseline_frames, loopVars,
                   envVars, last_frame, seg_log>>

\* ---------------------------------------- start_detection: calibration
\* Lines 86-104: the cache lookup.
LoadCalibration ==
    /\ pc = "lookup"
    /\ LET b == CachedBaseline(settings, device_index, now)
       IN  /\ baseline_energy' = b
           /\ pc' = IF b = NoneVal THEN "calibrate" ELSE "threshold"
           /\ session' = [session EXCEPT
                  !.lookup = IF b = NoneVal THEN "calibrate" ELSE "cached",
                  !.cache = <<settings.calibration_energy,
                              settings.calibration_timestamp,
                              settings.last_calibrated_device>>,
                  !.lookup_time = now]
    /\ baseline_frames' = <<>>
    /\ UNCHANGED <<appVars, settings, save_calls, detectorVars, device_index, chunks,
                   stream, audio, loopVars, envVars, last_frame, seg_log>>

\* Lines 107-115: one iteration of the calibration loop reads a frame.
CalibrationRead ==
    /\ pc = "calibrate"
    /\ Len(baseline_frames) < CALIBRATION_DURATION_CHUNKS
    /\ ~detection_event
    /\ baseline_frames' = Append(baseline_frames, noise)
    /\ session' = [session EXCEPT !.reads = TRUE]
    /\ UNCHANGED <<appVars, settings, save_calls, detectorVars, pc, device_index,
                   chunks, stream, audio, baseline_energy, loopVars,
                   envVars, last_frame, seg_log>>

\* Lines 109-111: termination requested during calibration.
CalibrationTerminated ==
    /\ pc = "calibrate"
    /\ Len(baseline_frames) < CALIBRATION_DURATION_CHUNKS
    /\ detection_event
    /\ pc' = "finally"
    /\ session' = [session EXCEPT !.end = "calibration terminated"]
    /\ UNCHANGED <<appVars, settings, save_calls, detectorVars, device_index,
                   chunks, stream, audio, baseline_energy, baseline_frames, loopVars,
                   envVars, last_frame, seg_log>>

\* CalibrationReadFails with the failure caught inside the calibration loop:
\* the baseline of the frames read so far is stored and saved.
CalibrationReadFailsStores ==
    /\ pc = "calibrate"
    /\ Len(baseline_frames) < CALIBRATION_DURATION_CHUNKS
    /\ ~detection_event
    /\ pc' = "finally"
    /\ settings' = [settings EXCEPT
           !.calibration_energy = SumSeq(baseline_frames),
           !.calibration_timestamp = now,
           !.last_calibrated_device = device_index]
    /\ save_calls' = save_calls + 1
    /\ session' = [session EXCEPT !.end = "calibration error"]
    /\ UNCHANGED <<appVars, detectorVars, device_index,
                   chunks, stream, audio, baseline_energy, baseline_frames, loopVars,
                   envVars, last_frame, seg_log>>

\* Line 113 raises IOError: caught at line 250, logged as a stream open
\* error (lines 274-276), return.
CalibrationReadFails ==
    /\ pc = "calibrate"
    /\ Len(baseline_frames) < CALIBRATION_DURATION_CHUNKS
    /\ ~detection_event
    /\ pc' = "finally"
    /\ session' = [session EXCEPT !.end = "calibration error"]
    /\ UNCHANGED <<appVars, settings, save_calls, detectorVars, device_index,
                   chunks, stream, audio, baseline_energy, baseline_frames, loopVars,
                   envVars, last_frame, seg_log>>

\* StoreCalibration that leaves last_calibrated_device as it was.
StoreCalibrationWithoutDevice ==
    /\ pc = "calibrate"
    /\ Len(baseline_frames) = CALIBRATION_DURATION_CHUNKS
    /\ baseline_energy' = BaselineMean(baseline_frames)
    /\ settings' = [settings EXCEPT
           !.calibration_energy = BaselineMean(baseline_frames),
           !.calibration_timestamp = now]
    /\ save_calls' = save_calls + 1
    /\ pc' = "threshold"
    /\ session' = [session EXCEPT !.calibrated = TRUE]
    /\ UNCHANGED <<appVars, detectorVars, device_index, chunks, stream, audio,
                   baseline_frames, loopVars, envVars, last_frame, seg_log>>

\* Lines 118-132: the baseline is computed, stored in settings and saved.
StoreCalibration ==
    /\ pc = "calibrate"
    /\ Len(baseline_frames) = CALIBRATION_DURATION_CHUNKS
    /\ baseline_energy' = BaselineMean(baseline_frames)
    /\ settings' = [settings EXCEPT
           !.calibration_energy = BaselineMean(baseline_frames),
           !.calibration_timestamp = now,
           !.last_calibrated_device = device_index]
    /\ save_calls' = save_calls + 1
    /\ pc' = "threshold"
    /\ session' = [session EXCEPT !.calibrated = TRUE]
    /\ UNCHANGED <<appVars, detectorVars, device_index, chunks, stream, audio,
                   baseline_frames, loopVars, envVars, last_frame, seg_log>>

\* Lines 134-141: the adaptive threshold is written to settings.
SetThreshold ==
    /\ pc = "threshold"
    /\ settings' = [settings EXCEPT
           !.silence_threshold = ThresholdAfter(settings, baseline_energy)]
    /\ frames' = <<>>
    /\ pc' = "loop"
    /\ session' = [session EXCEPT !.threshold_before = settings.silence_threshold,
                                   !.baseline = baseline_energy,
                                   !.loop_settings = settings']
    /\ UNCHANGED <<appVars, save_calls, detectorVars, device_index, chunks, stream,
                   audio, baseline_energy, baseline_frames,
                   circular_buffer, current_energy_levels, is_speaking, silent_chunks,
                   recorded_chunks, sentence_start_time, last_speech_time,
                   envVars, last_frame, seg_log>>


\* ------------------------------------------ start_detection: the main loop
\* LoopCheck without the two looks at the termination event.
LoopCheckIgnoresEvent ==
    /\ pc = "loop"
    /\ pc' = "read"
    /\ session' = session
    /\ UNCHANGED <<appVars, settings, save_calls, detectorVars, device_index, chunks,
                   stream, audio, baseline_energy, baseline_frames, loopVars,
                   envVars, last_frame, seg_log>>

\* Lines 142-147: the loop condition and the check before the read. The
\* active_flag argument is a lambda object, which is always true.
LoopCheck ==
    /\ pc = "loop"
    /\ IF detection_event
       THEN pc' = "finally" /\ session' = [session EXCEPT !.end = "stopped"]
       ELSE pc' = "read" /\ session' = session
    /\ UNCHANGED <<appVars, settings, save_calls, detectorVars, device_index, chunks,
                   stream, audio, baseline_energy, baseline_frames, loopVars,
                   envVars, last_frame, seg_log>>

\* ReadFails with "continue" in place of "break".
ReadFailsContinues ==
    /\ pc = "read"
    /\ pc' = "loop"
    /\ session' = [session EXCEPT !.end = "read error",
                                   !.failed_speaking = is_speaking,
                                   !.nread_at_failure = nread,
                                   !.queued_at_failure = Len(speech_queue)]
    /\ UNCHANGED <<appVars, settings, save_calls, detectorVars, device_index, chunks,
                   stream, audio, baseline_energy, baseline_frames, loopVars,
                   envVars, last_frame, seg_log>>

\* Lines 149-153: stream.read raises IOError, the loop is left.
ReadFails ==
    /\ pc = "read"
    /\ pc' = "finally"
    /\ session' = [session EXCEPT !.end = "read error",
                                   !.failed_speaking = is_speaking,
                                   !.nread_at_failure = nread,
                                   !.queued_at_failure = Len(speech_queue)]
    /\ UNCHANGED <<appVars, settings, save_calls, detectorVars, device_index, chunks,
                   stream, audio, baseline_energy, baseline_frames, loopVars,
                   envVars, last_frame, seg_log>>

\* Lines 308-329: _process_speech_segment; put_ok is whether queue.put
\* returned. The queue after the call.
ProcessSpeechSegment(queue, audio_data, rate, timestamp, id, put_ok) ==
    IF put_ok THEN Append(queue, Segment(audio_data, rate, timestamp, id)) ELSE queue

\* NextSegmentId without the increment.
NextSegmentIdStuck(c) == c

\* Lines 224 and 239: self.segment_counter += 1, whatever the call returned.
NextSegmentId(c) == c + 1

\* Lines 158-160: the pre-roll ring after one frame; pop(0) on an empty
\* list raises IndexError.
RingRaises(ring, size) == Len(ring) >= size /\ ring = <<>>
PushRing(ring, size, data) ==
    Append(IF Len(ring) >= size THEN Tail(ring) ELSE ring, data)

\* QueueFull for a queue created with maxsize 1.
QueueFullAtOne(queue) == Len(queue) >= 1

\* app.py 59-60: both queues are queue.Queue(), whose maxsize is 0.
QueueMaxSize == 0

\* A put blocks while the queue is full; a queue whose maxsize is not
\* positive is never full.
QueueFull(queue) == 0 < QueueMaxSize /\ QueueMaxSize <= Len(queue)

\* Lines 149-245: one frame is read and run through the state machine.
\* e is the frame's energy, dt the time the read took.
ProcessFrame(e, dt, put_ok) ==
    /\ pc = "read"
    /\ nread < limits.frames
    /\ ~QueueFull(energy_queue)
    /\ ~QueueFull(speech_queue)
    /\ nread' = nread + 1
    /\ now' = now + dt
    /\ IF RingRaises(circular_buffer, chunks.pre_padding_chunks)
       THEN \* IndexError, caught at line 278
            /\ pc' = "finally"
            /\ session' = [session EXCEPT !.end = "exception"]
            /\ UNCHANGED <<settings, save_calls, detectorVars, loopVars,
                           last_frame, seg_log>>
       ELSE
       LET data == nread + 1
           t == now + dt
           ring == PushRing(circular_buffer, chunks.pre_padding_chunks, data)
           levels == PushEnergy(current_energy_levels, e)
           thr == settings.silence_threshold
           is_speech == IsSpeech(levels, thr)
           onset == ~is_speaking /\ is_speech
           speaking == is_speaking \/ onset
           start == IF onset THEN t ELSE sentence_start_time
           fr == Append(IF onset THEN ring ELSE frames, data)
           rec == (IF onset THEN 0 ELSE recorded_chunks) + 1
           last == IF is_speech THEN t ELSE last_speech_time
           sil == IF is_speech THEN 0 ELSE silent_chunks + 1
           duration == t - start
           silence == t - last
           reason == SplitReason(silence, duration, levels, settings)
           sentence == SentenceCut(reason, duration, settings)
           eos == ~sentence /\ EndOfSpeech(sil, rec, chunks)
           emit == sentence \/ (eos /\ LongEnough(fr, chunks))
       IN  /\ pc' = "post"
           /\ circular_buffer' = ring
           /\ current_energy_levels' = levels
           /\ energy_queue' = Append(energy_queue, <<SumSeq(levels), Len(levels)>>)
           /\ UNCHANGED <<settings, save_calls, put_may_fail>>
           /\ IF ~speaking
              THEN /\ UNCHANGED <<frames, is_speaking, silent_chunks, recorded_chunks,
                                  sentence_start_time, last_speech_time,
                                  segment_counter, speech_queue, seg_log>>
                   /\ session' = [session EXCEPT
                          !.processed = @ + 1,
                          !.speech_seen = @ \/ SumSeq(levels) > thr * Len(levels)]
                   /\ last_frame' = [NoFrame EXCEPT
                          !.n = data, !.session = session.id,
                          !.energy = e, !.levels = levels, !.threshold = thr]
              ELSE /\ silent_chunks' = sil
                   /\ recorded_chunks' = rec
                   /\ last_speech_time' = last
                   /\ IF sentence \/ eos
                      THEN /\ frames' = <<>>
                           /\ is_speaking' = FALSE
                           /\ sentence_start_time' = NoneVal
                      ELSE /\ frames' = fr
                           /\ is_speaking' = TRUE
                           /\ sentence_start_time' = start
                   /\ IF emit
                      THEN /\ speech_queue' = ProcessSpeechSegment(speech_queue, fr,
                                  settings.sample_rate, start, segment_counter, put_ok)
                           /\ segment_counter' = NextSegmentId(segment_counter)
                           /\ seg_log' = Append(seg_log,
                                  [ segment_id |-> segment_counter,
                                    audio_data |-> fr,
                                    timestamp |-> start,
                                    reason |-> IF sentence THEN reason ELSE "end of speech",
                                    frame |-> data,
                                    put |-> put_ok,
                                    session |-> session.id,
                                    onset_ring |-> IF onset THEN circular_buffer
                                                   ELSE session.onset_ring,
                                    onset_frame |-> IF onset THEN data
                                                    ELSE session.onset_frame,
                                    min_phrase_chunks |-> chunks.min_phrase_chunks ])
                      ELSE UNCHANGED <<speech_queue, segment_counter, seg_log>>
                   /\ session' = [session EXCEPT
                          !.processed = @ + 1,
                          !.speech_seen = @ \/ SumSeq(levels) > thr * Len(levels),
                          !.puts = IF emit /\ put_ok THEN @ + 1 ELSE @,
                          !.onset_ring = IF onset THEN circular_buffer ELSE @,
                          !.onset_frame = IF onset THEN data ELSE @]
                   /\ last_frame' =
                          [ n |-> data, session |-> session.id,
                            was_speaking |-> is_speaking, speaking |-> TRUE,
                            energy |-> e, levels |-> levels, threshold |-> thr,
                            silence |-> silence, duration |-> duration,
                            silent |-> sil, recorded |-> rec, buffered |-> Len(fr),
                            reason |-> reason,
                            cut |-> IF sentence THEN "sentence"
                                    ELSE IF eos /\ emit THEN "end of speech"
                                    ELSE IF eos THEN "dropped"
                                    ELSE "none" ]
    /\ UNCHANGED <<appVars, device_index, chunks, stream, audio, baseline_energy,
                   baseline_frames, noise, limits, threads, consumerVars, changes>>

\* PostCheck that puts the frames buffered so far on the queue when it
\* sees the termination signal.
PostCheckFlushes ==
    /\ pc = "post"
    /\ IF detection_event
       THEN /\ pc' = "finally"
            /\ session' = [session EXCEPT !.end = "stopped"]
            /\ speech_queue' =
                   IF is_speaking
                   THEN ProcessSpeechSegment(speech_queue, frames, settings.sample_rate,
                                             sentence_start_time, segment_counter, TRUE)
                   ELSE speech_queue
       ELSE pc' = "loop" /\ session' = session /\ speech_queue' = speech_queue
    /\ UNCHANGED <<appVars, settings, save_calls, segment_counter, energy_queue,
                   put_may_fail, device_index, chunks,
                   stream, audio, baseline_energy, baseline_frames, loopVars,
                   envVars, last_frame, seg_log>>

\* Lines 246-249: the check after the frame.
PostCheck ==
    /\ pc = "post"
    /\ IF detection_event
       THEN pc' = "finally" /\ session' = [session EXCEPT !.end = "stopped"]
       ELSE pc' = "loop" /\ session' = session
    /\ UNCHANGED <<appVars, settings, save_calls, detectorVars, device_index, chunks,
                   stream, audio, baseline_energy, baseline_frames, loopVars,
                   envVars, last_frame, seg_log>>

\* Cleanup that never calls stream.close().
CleanupKeepsStream ==
    /\ pc = "finally"
    /\ pc' = "exit"
    /\ stream' = stream
    /\ audio' = "terminated"
    /\ baseline_energy' = NoneVal
    /\ baseline_frames' = <<>>
    /\ circular_buffer' = <<>>
    /\ current_energy_levels' = <<>>
    /\ frames' = <<>>
    /\ is_speaking' = FALSE
    /\ silent_chunks' = 0
    /\ recorded_chunks' = 0
    /\ sentence_start_time' = NoneVal
    /\ last_speech_time' = NoneVal
    /\ UNCHANGED <<appVars, settings, save_calls, detectorVars, device_index, chunks,
                   envVars, histVars>>

\* Lines 280-296: the finally block, after which start_detection returns
\* and its locals are gone.
Cleanup ==
    /\ pc = "finally"
    /\ pc' = "exit"
    /\ stream' = IF stream = "open" THEN "closed" ELSE stream
    /\ audio' = "terminated"
    /\ baseline_energy' = NoneVal
    /\ baseline_frames' = <<>>
    /\ circular_buffer' = <<>>
    /\ current_energy_levels' = <<>>
    /\ frames' = <<>>
    /\ is_speaking' = FALSE
    /\ silent_chunks' = 0
    /\ recorded_chunks' = 0
    /\ sentence_start_time' = NoneVal
    /\ last_speech_time' = NoneVal
    /\ UNCHANGED <<appVars, settings, save_calls, detectorVars, device_index, chunks,
                   envVars, histVars>>

\* _listen_and_transcribe's finally block (app.py 303-310); the thread ends.
ThreadExit ==
    /\ pc = "exit"
    /\ pc' = "done"
    /\ force_stop_pending' = (force_stop_pending \/ active)
    /\ threads' = [threads EXCEPT !.detection = @ - 1]
    /\ UNCHANGED <<active, detection_event, app_segment_counter, notification,
                   settings, save_calls, detectorVars, device_index, chunks, stream,
                   audio, baseline_energy, baseline_frames, loopVars,
                   now, noise, nread, limits, changes, consumerVars, histVars>>


\* ------------------------------------------- collaborators of the consumer
\* Texts are sequences of one-character strings. What the model call
\* can recognise: nothing, a filler, a word.
RawTexts == { <<>>, <<"u", "m">>, <<"a">> }

\* What the model call inside transcribe can come to instead of a text:
\* no model is loaded (transcriber.py 67-69), or the call raises (95-97).
ModelFailures == { <<"model not loaded">>, <<"exception">> }

\* transcribe that lets a failure of the model call out.
TranscribeRaising(result) ==
    IF result \in ModelFailures
    THEN [raised |-> TRUE, text |-> <<>>]
    ELSE [raised |-> FALSE, text |-> result]

\* transcriber.py 57-97: transcribe returns the text of the model call,
\* and "" when no model is loaded or an exception is caught.
Transcribe(result) ==
    IF result \in ModelFailures
    THEN [raised |-> FALSE, text |-> <<>>]
    ELSE [raised |-> FALSE, text |-> result]

\* How long a transcription call blocks, in ms.
TranscribeTimes == {400, 1200}

\* What can go wrong in preprocess_audio: nothing, noisereduce missing
\* (ImportError), or reduce_noise raising another exception.
PreprocessFaults == {"none", "import", "reduce"}

RECURSIVE LStrip(_)
LStrip(t) == IF t # <<>> /\ Head(t) = " " THEN LStrip(Tail(t)) ELSE t

RECURSIVE RStrip(_)
RStrip(t) ==
    IF t # <<>> /\ t[Len(t)] = " " THEN RStrip(SubSeq(t, 1, Len(t) - 1)) ELSE t

\* str.strip()
Strip(t) == RStrip(LStrip(t))

\* text_processing.py 54-55 on the texts of RawTexts: \bum+\b is deleted.
RemoveFillers(t) == IF t = <<"u", "m">> THEN <<>> ELSE t

\* str.upper() of one character.
Upper(c) == IF c = "a" THEN "A" ELSE IF c = "b" THEN "B" ELSE c

\* text_processing.py 37-75: post_process_text.
PostProcessText(text) ==
    LET t1 == Strip(text)
        t2 == RemoveFillers(t1)
        t3 == IF Len(t2) > 0 THEN <<Upper(Head(t2))>> \o Tail(t2) ELSE t2
    IN  IF t1 = <<>> THEN t1
        ELSE IF t3 # <<>> /\ t3[Len(t3)] \notin {".", "!", "?"}
             THEN Append(t3, ".")
             ELSE t3

\* audio_processor.py 128-141 with audio_utils.py 14-64: the stages applied
\* to a segment's audio (use_noise_reduction at its default, True), and
\* those that changed it. Only the ImportError of the noise reduction is
\* caught (the stage then returns its input); any other exception leaves
\* preprocess_audio.
PreprocessAudio(audio_data, fault) ==
    IF fault = "reduce"
    THEN [raised |-> TRUE, audio |-> audio_data, stages |-> <<"normalize", "highpass">>]
    ELSE [raised |-> FALSE, audio |-> audio_data,
          stages |-> IF fault = "import"
                     THEN <<"normalize", "highpass">>
                     ELSE <<"normalize", "highpass", "noise reduction">>]

\* " ".join(...) of the fragments' texts.
RECURSIVE Join(_)
Join(buffer) ==
    IF buffer = <<>> THEN <<>>
    ELSE IF Len(buffer) = 1 THEN buffer[1].text
    ELSE buffer[1].text \o <<" ">> \o Join(Tail(buffer))

\* The segment ids of the segments of a queue.
SegmentIds(queue) == [i \in 1..Len(queue) |-> queue[i].segment_id]

\* The segment ids of the fragments of a buffer.
Ids(buffer) == [i \in 1..Len(buffer) |-> buffer[i].id]

\* app.py 379: the cleaned text ends a sentence.
EndsSentence(cleaned_text) ==
    LET t == RStrip(cleaned_text)
    IN  t # <<>> /\ t[Len(t)] \in {".", "!", "?"}

\* IsContinuous of a consumer that compares against nothing.
IsContinuousNever(last, t, s) == FALSE

\* app.py 372-373.
IsContinuous(last, t, s) == last # NoneVal /\ t - last < s.sentence_pause_threshold

\* BufferTimedOut of a consumer without the timeout check.
BufferTimedOutNever(buffer, last, t, s) == FALSE

\* app.py 417-418: the sentence buffer has timed out.
BufferTimedOut(buffer, last, t, s) ==
    buffer # <<>> /\ (last = NoneVal \/ t - last > s.sentence_pause_threshold)

\* A finalize that leaves the buffer as it was.
NotCleared(buffer) == buffer

\* app.py 381 and 420: sentence_buffer = [] after a finalize.
Cleared(buffer) == <<>>

\* insert_text that hands nothing to the main thread.
InsertTextDrops(sink, text) == sink

\* app.py 430-454: insert_text hands a non-empty text to the main thread.
InsertText(sink, text) == IF text = <<>> THEN sink ELSE Append(sink, text)

\* The clock matters to the consumer only until the pause threshold has
\* passed since the last transcription.
Elapse(d) ==
    IF /\ last_transcription_time # NoneVal
       /\ now - last_transcription_time <= settings.sentence_pause_threshold
    THEN now + d ELSE now

\* The arrival log keeps the arrival time of its last fragment only.
Forget(log) == [i \in 1..Len(log) |-> [log[i] EXCEPT !.time = NoneVal]]

\* ------------------------------------------------- process_speech_queue
\* run() calls start_queue_processor (app.py 126, 324-331); the thread
\* enters process_speech_queue (345-346).
StartQueueProcessor ==
    /\ cpc = "none"
    /\ is_processing_queue' = TRUE
    /\ cpc' = "loop"
    /\ last_transcription_time' = NoneVal
    /\ sentence_buffer' = <<>>
    /\ threads' = [threads EXCEPT !.consumer = @ + 1]
    /\ UNCHANGED <<appVars, settings, save_calls, detectorVars, threadVars, loopVars,
                   now, noise, nread, limits, changes, histVars,
                   segment, current_time, text_sink, consumed, arrivals, sink_log>>

\* app.py 348-349: the loop condition.
ConsumerLoop ==
    /\ cpc = "loop"
    /\ cpc' = IF is_processing_queue THEN "get" ELSE "done"
    /\ segment' = NoSegment
    /\ consumed' = IF is_processing_queue THEN consumed
                   ELSE Append(consumed, [id |-> NoneVal, event |-> "exit",
                                          queued |-> SegmentIds(speech_queue),
                                          buffered |-> Ids(sentence_buffer)])
    /\ threads' = IF is_processing_queue THEN threads
                  ELSE [threads EXCEPT !.consumer = @ - 1]
    /\ UNCHANGED <<appVars, settings, save_calls, detectorVars, threadVars, loopVars,
                   now, noise, nread, limits, changes, histVars,
                   is_processing_queue, current_time, last_transcription_time,
                   sentence_buffer, text_sink, arrivals, sink_log>>

\* app.py 352-356: a segment is taken from the queue.
ConsumerGet ==
    /\ cpc = "get"
    /\ speech_queue # <<>>
    /\ segment' = Head(speech_queue)
    /\ speech_queue' = Tail(speech_queue)
    /\ current_time' = now
    /\ cpc' = "process"
    /\ consumed' = Append(consumed, [id |-> Head(speech_queue).segment_id,
                                     event |-> "taken"])
    /\ UNCHANGED <<appVars, settings, save_calls, segment_counter, energy_queue,
                   put_may_fail, threadVars, loopVars,
                   now, noise, nread, limits, threads, changes, histVars,
                   is_processing_queue, last_transcription_time,
                   sentence_buffer, text_sink, arrivals, sink_log>>

\* app.py 352, 391-393: get times out after 0.2 s on an empty queue.
ConsumerGetTimeout ==
    /\ cpc = "get"
    /\ speech_queue = <<>>
    /\ now' = Elapse(200)
    /\ cpc' = "energy"
    /\ UNCHANGED <<appVars, settings, save_calls, detectorVars, threadVars, loopVars,
                   noise, nread, limits, threads, changes, histVars,
                   is_processing_queue, segment, current_time, last_transcription_time,
                   sentence_buffer, text_sink, consumed, arrivals, sink_log>>

\* app.py 358-401: the segment is preprocessed and transcribed (the call
\* blocks for d), and its text goes through the sentence buffer. An
\* exception in preprocess_audio is caught at line 394.
ConsumerProcess(result, d, fault) ==
    /\ cpc = "process"
    /\ cpc' = "energy"
    /\ LET pre == PreprocessAudio(segment.audio_data, fault)
           call == Transcribe(result)
           text == call.text
           has_text == ~pre.raised /\ ~call.raised /\ text # <<>> /\ Strip(text) # <<>>
           cleaned_text == PostProcessText(text)
           fragment == [id |-> segment.segment_id, text |-> cleaned_text]
           is_continuous == IsContinuous(last_transcription_time, current_time, settings)
           appended == Append(sentence_buffer, fragment)
       IN  /\ now' = IF pre.raised THEN now ELSE IF has_text THEN now + d ELSE Elapse(d)
           /\ segment' = [segment EXCEPT !.audio_data = <<>>]
           /\ consumed' = Append(consumed,
                  [id |-> segment.segment_id,
                   event |-> IF pre.raised THEN "dropped"
                             ELSE IF call.raised THEN "raised" ELSE "transcribed",
                   fault |-> fault,
                   failed |-> ~pre.raised /\ result \in ModelFailures,
                   sent |-> IF ~has_text THEN 0
                            ELSE IF is_continuous
                                 THEN IF EndsSentence(cleaned_text) THEN Len(appended) ELSE 0
                                 ELSE Len(sentence_buffer)])
           /\ IF ~has_text
              THEN UNCHANGED <<last_transcription_time, sentence_buffer, text_sink,
                               arrivals, sink_log>>
              ELSE /\ last_transcription_time' = current_time
                   /\ arrivals' = Append(Forget(arrivals),
                          [id |-> fragment.id, text |-> cleaned_text,
                           time |-> current_time])
                   /\ IF is_continuous
                      THEN IF EndsSentence(cleaned_text)
                           THEN /\ text_sink' = InsertText(text_sink,
                                                    Join(appended) \o <<" ">>)
                                /\ sink_log' = Append(sink_log, Ids(appended))
                                /\ sentence_buffer' = Cleared(appended)
                           ELSE /\ sentence_buffer' = appended
                                /\ UNCHANGED <<text_sink, sink_log>>
                      ELSE /\ sentence_buffer' = <<fragment>>
                           /\ IF sentence_buffer # <<>>
                              THEN /\ text_sink' = InsertText(text_sink,
                                                       Join(sentence_buffer) \o <<" ">>)
                                   /\ sink_log' = Append(sink_log, Ids(sentence_buffer))
                              ELSE UNCHANGED <<text_sink, sink_log>>
    /\ UNCHANGED <<appVars, settings, save_calls, detectorVars, threadVars, loopVars,
                   noise, nread, limits, threads, changes, histVars,
                   is_processing_queue, current_time>>

\* app.py 404-414: the energy readings are forwarded to the indicator.
ConsumerEnergy ==
    /\ cpc = "energy"
    /\ cpc' = "timeout"
    /\ energy_queue' = <<>>
    /\ UNCHANGED <<appVars, settings, save_calls, segment_counter, speech_queue,
                   put_may_fail, threadVars, loopVars,
                   now, noise, nread, limits, threads, changes, histVars,
                   is_processing_queue, segment, current_time, last_transcription_time,
                   sentence_buffer, text_sink, consumed, arrivals, sink_log>>

\* app.py 416-425: the timeout check of the sentence buffer, and the short
\* sleep of an idle iteration.
ConsumerTimeoutCheck ==
    /\ cpc = "timeout"
    /\ cpc' = "loop"
    /\ IF BufferTimedOut(sentence_buffer, last_transcription_time, now, settings)
       THEN /\ text_sink' = InsertText(text_sink, Join(sentence_buffer) \o <<" ">>)
            /\ sink_log' = Append(sink_log, Ids(sentence_buffer))
            /\ sentence_buffer' = Cleared(sentence_buffer)
            /\ last_transcription_time' = NoneVal
            /\ now' = now
       ELSE /\ UNCHANGED <<text_sink, sink_log, sentence_buffer,
                           last_transcription_time>>
            /\ now' = IF segment = NoSegment /\ energy_queue = <<>>
                      THEN Elapse(50) ELSE now
    /\ UNCHANGED <<appVars, settings, save_calls, detectorVars, threadVars, loopVars,
                   noise, nread, limits, threads, changes, histVars,
                   is_processing_queue, segment, current_time, consumed, arrivals>>

\* exit_app (app.py 527-535): listening off, the consumer's run flag
\* cleared (336-339), the detection thread signalled.
ExitApp ==
    /\ is_processing_queue
    /\ active' = FALSE
    /\ is_processing_queue' = FALSE
    /\ detection_event' = TRUE
    /\ consumed' = Append(consumed, [id |-> NoneVal, event |-> "stop",
                                     queued |-> SegmentIds(speech_queue),
                                     buffered |-> Ids(sentence_buffer)])
    /\ UNCHANGED <<app_segment_counter, force_stop_pending, notification,
                   settings, save_calls, detectorVars, threadVars, loopVars,
                   now, noise, nread, limits, threads, changes, histVars,
                   cpc, segment, current_time, last_transcription_time,
                   sentence_buffer, text_sink, arrivals, sink_log>>

\* The steps of the consumer thread.
Consumer ==
    \/ ConsumerLoop
    \/ ConsumerGet
    \/ ConsumerGetTimeout
    \/ \E result \in limits.texts, d \in limits.delays, fault \in limits.faults :
          ConsumerProcess(result, d, fault)
    \/ ConsumerEnergy
    \/ ConsumerTimeoutCheck

\* ------------------------------------------------------------------- Next
\* The steps of start_detection.
Detection ==
    \/ StartDetection
    \/ OpenStream
    \/ \E invalid_device \in BOOLEAN : OpenFails(invalid_device)
    \/ FallbackOpens
    \/ FallbackFails
    \/ LoadCalibration
    \/ CalibrationRead
    \/ CalibrationTerminated
    \/ CalibrationReadFails
    \/ StoreCalibration
    \/ SetThreshold
    \/ LoopCheck
    \/ ReadFails
    \/ \E e \in limits.energies, dt \in limits.times :
          \E put_ok \in (IF put_may_fail THEN BOOLEAN ELSE {TRUE}) :
              ProcessFrame(e, dt, put_ok)
    \/ PostCheck
    \/ Cleanup

\* The application: the owner toggles listening, changes the device and
\* lets time pass; the detection thread runs sessions.
Next ==
    \/ ToggleOn
    \/ ToggleOff
    \/ ForceStop
    \/ \E d \in Devices : ChangeDevice(d)
    \/ DayPasses
    \/ Detection
    \/ ThreadExit

Spec == Init /\ [][Next]_vars

\* One listening session in detail: the owner switches listening on once
\* and may switch it off at any time; no settings change. The queue is the
\* application's (DetectorSpec) or one whose put may raise (FaultySpec).
InitDetector ==
    /\ settings \in InitialSettings
    /\ InitCommon
    /\ put_may_fail = FALSE
    /\ limits = [frames |-> MaxFrames, sessions |-> 1, changes |-> 0,
                 energies |-> Energies, times |-> FrameTimes,
                 noises |-> NoiseLevels]

InitFaulty ==
    /\ settings \in InitialSettings
    /\ InitCommon
    /\ put_may_fail = TRUE
    /\ limits = [frames |-> MaxFrames, sessions |-> 1, changes |-> 0,
                 energies |-> Energies, times |-> FrameTimes,
                 noises |-> NoiseLevels]

NextDetector ==
    \/ ToggleOn
    \/ ToggleOff
    \/ ForceStop
    \/ Detection
    \/ ThreadExit

DetectorSpec == InitDetector /\ [][NextDetector]_vars

FaultySpec == InitFaulty /\ [][NextDetector]_vars

\* One session long enough to fill the smoothing window and go past it, on
\* a calibrated device, with frames of equal duration.
InitWindow ==
    /\ settings = [CalibratedSettings EXCEPT !.input_device_index = 0]
    /\ InitCommon
    /\ put_may_fail = FALSE
    /\ limits = [frames |-> MaxWindowFrames, sessions |-> 1, changes |-> 0,
                 energies |-> Energies, times |-> {500},
                 noises |-> {200}]

NextWindow ==
    \/ ToggleOn
    \/ StartDetection
    \/ OpenStream
    \/ LoadCalibration
    \/ SetThreshold
    \/ LoopCheck
    \/ \E e \in limits.energies, dt \in limits.times : ProcessFrame(e, dt, TRUE)
    \/ PostCheck

WindowSpec == InitWindow /\ [][NextWindow]_vars

\* One session with the shortest validated pre_padding at the lowest
\* validated sample rate (config_manager.py 47-51: 0.1 s at 8000 Hz, a ring
\* of int(0.78) = 0 frames), or with a ring of three frames, or with the
\* shortest validated silence_padding and min_phrase_duration at 8000 Hz
\* (config_manager.py 52-53: 0.1 s each, int(0.78) = 0 chunks each).
InitRing ==
    /\ settings \in { [DefaultSettings EXCEPT !.input_device_index = 0,
                                               !.sample_rate = 8000],
                       [DefaultSettings EXCEPT !.input_device_index = 0,
                                               !.pre_padding = 200],
                       [DefaultSettings EXCEPT !.input_device_index = 0,
                                               !.sample_rate = 8000,
                                               !.pre_padding = 200,
                                               !.min_phrase_duration = 100] }
    /\ InitCommon
    /\ put_may_fail = FALSE
    /\ limits = [frames |-> MaxFrames, sessions |-> 1, changes |-> 0,
                 energies |-> Energies, times |-> FrameTimes,
                 noises |-> {200}]

RingSpec == InitRing /\ [][NextDetector]_vars

\* Listening switched on and off repeatedly on a calibrated device, with
\* sessions long enough to emit segments.
InitSessions ==
    /\ settings = [CalibratedSettings EXCEPT !.input_device_index = 0]
    /\ InitCommon
    /\ put_may_fail = FALSE
    /\ limits = [frames |-> MaxSessionFrames, sessions |-> MaxSessions, changes |-> 0,
                 energies |-> Energies, times |-> {2500},
                 noises |-> {200}]

NextSessions ==
    \/ ToggleOn
    \/ ToggleOff
    \/ ForceStop
    \/ StartDetection
    \/ OpenStream
    \/ LoadCalibration
    \/ SetThreshold
    \/ LoopCheck
    \/ \E e \in limits.energies, dt \in limits.times : ProcessFrame(e, dt, TRUE)
    \/ PostCheck
    \/ Cleanup
    \/ ThreadExit

SessionsSpec == InitSessions /\ [][NextSessions]_vars

\* The detection thread is scheduled, and each of its blocking reads
\* returns (with a frame or with an error).
FairDetectorSpec ==
    InitDetector /\ [][NextDetector]_vars /\ WF_vars(Detection) /\ WF_vars(ThreadExit)

\* The application with a settings dialog that can be accepted while a
\* session runs.
InitDialog ==
    /\ settings \in InitialSettings \cup {CalibratedSettings}
    /\ InitCommon
    /\ put_may_fail = FALSE
    /\ limits = [frames |-> MaxAppFrames, sessions |-> 1, changes |-> MaxChanges,
                 energies |-> {1200}, times |-> {500},
                 noises |-> NoiseLevels]

NextDialog ==
    \/ ToggleOn
    \/ ToggleOff
    \/ ForceStop
    \/ \E slider \in ThresholdSliders : AcceptSettings(slider)
    \/ Detection
    \/ ThreadExit

DialogSpec == InitDialog /\ [][NextDialog]_vars

\* Settings objects: every combination of set and unset calibration and
\* device fields, and of two thresholds.
SettingsValues ==
    { [DefaultSettings EXCEPT !.calibration_energy = ce,
                              !.calibration_timestamp = ct,
                              !.last_calibrated_device = cd,
                              !.speech_energy_threshold = se,
                              !.silence_threshold = st,
                              !.input_device_index = di] :
        ce \in {NoneVal, 0, 200}, ct \in {0, CacheMaxAge}, cd \in {NoneVal, 0, 1},
        se \in {3, 5}, st \in {100, 500}, di \in {NoneVal, 0, 1} }

\* The round trip of a Settings object through its dictionary.
InitRoundTrip ==
    /\ settings \in SettingsValues
    /\ InitCommon
    /\ put_may_fail = FALSE
    /\ limits = [frames |-> 0, sessions |-> 0, changes |-> MaxChanges,
                 energies |-> {}, times |-> {}, noises |-> {}]

RoundTripSpec == InitRoundTrip /\ [][CopySettings]_vars

\* Capture and consumer together: the settings hold a calibration made on
\* device 0 an hour ago, every frame is loud and arrives after a stall
\* that reaches max_sentence_length, so every second frame cuts a segment.
InitQueue(n, texts, delays, faults) ==
    /\ settings = [CalibratedSettings EXCEPT !.input_device_index = 0]
    /\ InitCommon
    /\ put_may_fail = FALSE
    /\ limits = [frames |-> n, sessions |-> 1, changes |-> 0,
                 energies |-> {1200}, times |-> {5000}, noises |-> {200},
                 texts |-> texts, delays |-> delays, faults |-> faults]

\* The Qt event loop, which runs the toggles and exit_app as queued calls
\* (app.py 181-200), is entered at the end of run() (app.py 126-130), after
\* the consumer thread was started.
EventLoop == cpc # "none"

\* The steps of a detection thread whose device works: no open or read
\* fails, and the cached calibration is used.
Capture ==
    \/ StartDetection
    \/ OpenStream
    \/ LoadCalibration
    \/ SetThreshold
    \/ LoopCheck
    \/ \E e \in limits.energies, dt \in limits.times : ProcessFrame(e, dt, TRUE)
    \/ PostCheck
    \/ Cleanup
    \/ ThreadExit

\* The consumer of the whole application: listening is toggled, the
\* application exits, preprocessing may fail.
InitConsumer == InitQueue(MaxQueueFrames, {<<>>, <<"a">>}, {400}, PreprocessFaults)

NextConsumer ==
    \/ StartQueueProcessor
    \/ EventLoop /\ ToggleOn
    \/ EventLoop /\ ToggleOff
    \/ Capture
    \/ Consumer
    \/ EventLoop /\ ExitApp

ConsumerSpec == InitConsumer /\ [][NextConsumer]_vars

\* The sentence buffer: one listening session that is left on, every kind
\* of transcription result, preprocessing without faults.
InitBuffer == InitQueue(MaxBufferFrames, RawTexts, TranscribeTimes, {"none"})

NextBuffer ==
    \/ StartQueueProcessor
    \/ EventLoop /\ ToggleOn
    \/ StartDetection
    \/ OpenStream
    \/ LoadCalibration
    \/ SetThreshold
    \/ LoopCheck
    \/ \E e \in limits.energies, dt \in limits.times : ProcessFrame(e, dt, TRUE)
    \/ PostCheck
    \/ Consumer

BufferSpec == InitBuffer /\ [][NextBuffer]_vars

\* The sentence buffer with a consumer thread that keeps running: the
\* thread is never stopped, and the scheduler lets it take its next step.
InitFairBuffer == InitQueue(MaxQueueFrames, RawTexts, TranscribeTimes, {"none"})

FairBufferSpec == InitFairBuffer /\ [][NextBuffer]_vars /\ WF_vars(Consumer)

\* The consumer with a transcriber whose model call can fail.
InitTranscriber ==
    InitQueue(MaxQueueFrames, ModelFailures \cup {<<>>, <<"a">>}, {400}, {"none"})

TranscriberSpec == InitTranscriber /\ [][NextBuffer]_vars


\* ================================================================ claims
\* The frames n..m of the captured stream.
Run(n, m) == [k \in 1..(m - n + 1) |-> n + k - 1]

\* The adaptive threshold of the session as the clamp defines it.
ClampedThreshold ==
    LET raw == session.baseline * settings.speech_energy_threshold
    IN  IF raw < 300 THEN 300 ELSE IF raw > 1000 THEN 1000 ELSE raw

\* C1 (as claimed): while the smoothed energy of every frame of the session
\* has been at most the adaptive threshold clamp(baseline * factor, 300,
\* 1000), the state machine is Idle, no segment has been built and nothing
\* is on the segment queue.
C1_QuietSessionClaim ==
    ( /\ session.processed > 0
      /\ \A i \in 1..Len(energy_queue) :
             energy_queue[i][1] <= ClampedThreshold * energy_queue[i][2] ) =>
        /\ ~is_speaking
        /\ frames = <<>>
        /\ seg_log = <<>>
        /\ speech_queue = <<>>

\* C2 (as claimed): every emitted segment is the pre-roll ring as it was
\* before the onset frame was read, followed by the live frames from the
\* onset frame to the frame of the cut.
C2_PrePaddingClaim ==
    \A i \in 1..Len(seg_log) :
        seg_log[i].audio_data
            = seg_log[i].onset_ring \o Run(seg_log[i].onset_frame, seg_log[i].frame)

\* The sentence-boundary reason the fixed priority gives for a frame.
PriorityReason(f) ==
    IF f.silence >= settings.sentence_pause_threshold THEN "long pause"
    ELSE IF f.duration >= settings.max_sentence_length THEN "max length"
    ELSE IF /\ 2 * f.silence >= settings.sentence_pause_threshold
            /\ SumSeq(f.levels) * 10
                 < f.threshold * settings.sentence_energy_threshold * Len(f.levels)
         THEN "energy drop"
    ELSE "none"

\* A sentence-boundary cut is due on the frame.
SentenceCutDue(f) ==
    f.duration >= settings.min_sentence_length /\ PriorityReason(f) # "none"

\* C3: a frame processed while Speaking emits at most one segment; a
\* sentence-boundary cut is taken exactly when the duration has reached
\* min_sentence_length and one of the three conditions holds, with the first
\* that holds of long pause, max length, energy drop as its reason; the
\* end-of-speech check decides only on frames without such a cut.
C3_CutPriority ==
    /\ \A i, j \in 1..Len(seg_log) :
           seg_log[i].frame = seg_log[j].frame => i = j
    /\ last_frame.speaking =>
           /\ (last_frame.cut = "sentence") = SentenceCutDue(last_frame)
           /\ last_frame.cut = "sentence" =>
                  /\ seg_log # <<>>
                  /\ seg_log[Len(seg_log)].frame = last_frame.n
                  /\ seg_log[Len(seg_log)].reason = PriorityReason(last_frame)
           /\ last_frame.cut \in {"end of speech", "dropped"} =>
                  /\ ~SentenceCutDue(last_frame)
                  /\ last_frame.silent >= chunks.silence_padding_chunks
                  /\ last_frame.recorded >= chunks.min_phrase_chunks
           /\ last_frame.cut = "end of speech" =>
                  /\ seg_log # <<>>
                  /\ seg_log[Len(seg_log)].frame = last_frame.n
                  /\ seg_log[Len(seg_log)].reason = "end of speech"

\* C3 witness: a cut on a frame where the long-pause and the max-length
\* conditions both hold.
C3_Witness ==
    /\ last_frame.cut = "sentence"
    /\ last_frame.silence >= settings.sentence_pause_threshold
    /\ last_frame.duration >= settings.max_sentence_length
    /\ seg_log[Len(seg_log)].reason = "long pause"

\* C4: after a frame processed while Speaking with silence >=
\* sentence_pause_threshold and duration >= min_sentence_length, the segment
\* built on that frame is on the queue and the state machine is Idle.
C4_LongPauseCuts ==
    ( /\ pc = "post"
      /\ last_frame.speaking
      /\ last_frame.silence >= settings.sentence_pause_threshold
      /\ last_frame.duration >= settings.min_sentence_length ) =>
        /\ ~is_speaking
        /\ frames = <<>>
        /\ seg_log # <<>>
        /\ seg_log[Len(seg_log)].frame = last_frame.n
        /\ speech_queue # <<>>
        /\ speech_queue[Len(speech_queue)].segment_id
               = seg_log[Len(seg_log)].segment_id
        /\ speech_queue[Len(speech_queue)].audio_data
               = seg_log[Len(seg_log)].audio_data
        /\ Len(seg_log[Len(seg_log)].audio_data) = last_frame.buffered

\* C4 witness: a long-pause cut on a frame where the end-of-speech check
\* would not have cut (fewer than min_phrase_chunks frames recorded).
C4_Witness ==
    /\ pc = "post"
    /\ last_frame.speaking
    /\ last_frame.silence >= settings.sentence_pause_threshold
    /\ last_frame.duration >= settings.min_sentence_length
    /\ last_frame.recorded < chunks.min_phrase_chunks
    /\ ~is_speaking

\* C5: a segment emitted by the end-of-speech path holds more than
\* floor(min_phrase_duration * sample_rate / 1024) frames, so its audio is
\* at least min_phrase_duration long.
C5_OrdinaryEndLength ==
    \A i \in 1..Len(seg_log) :
        seg_log[i].reason = "end of speech" =>
            /\ Len(seg_log[i].audio_data)
                 > (settings.min_phrase_duration * settings.sample_rate) \div (1000 * 1024)
            /\ Len(seg_log[i].audio_data) * 1024 * 1000
                 >= settings.min_phrase_duration * settings.sample_rate

\* C5 witness: a segment emitted by the end-of-speech path.
C5_Witness ==
    /\ seg_log # <<>>
    /\ seg_log[Len(seg_log)].reason = "end of speech"
    /\ speech_queue # <<>>
    /\ speech_queue[Len(speech_queue)].segment_id = seg_log[Len(seg_log)].segment_id

\* C6: the segment_id values on the segment queue are strictly increasing in
\* queue order, also when some put failed; a queued segment carries the id
\* _process_speech_segment was called with.
C6_IdsIncrease ==
    /\ \A i, j \in 1..Len(speech_queue) :
           i < j => speech_queue[i].segment_id < speech_queue[j].segment_id
    /\ \A i, j \in 1..Len(seg_log) :
           i < j => seg_log[i].segment_id < seg_log[j].segment_id
    /\ \A i \in 1..Len(speech_queue) :
           \E j \in 1..Len(seg_log) :
               /\ seg_log[j].put
               /\ seg_log[j].segment_id = speech_queue[i].segment_id
               /\ seg_log[j].audio_data = speech_queue[i].audio_data

\* C6 witness: a segment is queued after an earlier put failed.
C6_Witness ==
    /\ Len(seg_log) = 2
    /\ ~seg_log[1].put
    /\ seg_log[2].put
    /\ Len(speech_queue) = 1
    /\ speech_queue[1].segment_id = 1

\* C7 (as claimed): the threshold the loop compares the smoothed energy
\* against is max(300, min(b * f, 1000)) for the session's baseline b and
\* the factor f, whatever threshold the settings held before.
C7_ThresholdClaim ==
    pc \in {"loop", "read", "post"} =>
        /\ settings.silence_threshold = ClampedThreshold
        /\ settings.silence_threshold >= 300
        /\ settings.silence_threshold <= 1000

\* The cached profile seen by the lookup is invalid for the session's device.
CacheInvalid ==
    \/ session.cache[3] # session.device
    \/ session.lookup_time - session.cache[2] > 24 * 3600 * 1000
    \/ session.cache[1] = NoneVal

\* The first part of C8: calibration frames are read and the baseline is
\* recomputed exactly when the cached profile is invalid; a valid profile
\* is used as it is, without a calibration read.
CalibratesWhenInvalid ==
    /\ session.lookup # "none" => (session.lookup = "calibrate") = CacheInvalid
    /\ session.reads => session.lookup = "calibrate"
    /\ session.calibrated =>
           /\ session.reads
           /\ settings.last_calibrated_device = session.device
           /\ settings.calibration_timestamp = session.lookup_time
    /\ session.lookup = "cached" =>
           /\ ~session.calibrated
           /\ settings.calibration_energy = session.cache[1]
           /\ settings.calibration_timestamp = session.cache[2]
           /\ settings.last_calibrated_device = session.cache[3]
           /\ pc \in {"loop", "read", "post"} => session.baseline = session.cache[1]
    /\ (pc \in {"loop", "read", "post"} /\ session.lookup = "calibrate") =>
           session.calibrated

C9_FallbackClaim ==
    /\ session.opens <= 2
    /\ ( /\ session.opens = 2
         /\ pc \in {"finally", "exit", "done"}
         /\ session.lookup = "none" ) => session.end = "fallback failed"

\* The session has ended on a read failure that happened while Speaking.
FailedWhileSpeaking ==
    session.end = "read error" /\ session.failed_speaking

C10_NothingAfterFailure ==
    (FailedWhileSpeaking /\ session'.id = session.id) =>
        /\ nread' = nread
        /\ speech_queue' = speech_queue
        /\ seg_log' = seg_log
        /\ pc' \in {"finally", "exit", "done", "start"}

\* A detection thread is started only by toggle_listening switching on.
C10_OnlyOwnerStarts ==
    /\ (pc' = "start" /\ pc # "start") => (~active /\ active')
    /\ session'.id # session.id => pc = "start"

\* The listening flag is cleared by the owner's toggle (which reports
\* "Listening Stopped") or by the forced stop (which reports "Error").
C10_StopIsReported ==
    (active /\ ~active') =>
        \/ notification' = "Listening Stopped" /\ detection_event'
        \/ notification' = "Error" /\ force_stop_pending /\ session'.error_reported

C11_CalibrationFailurePublishesNothing ==
    session.end = "calibration error" =>
        /\ settings.calibration_energy = session.settings_at_start.calibration_energy
        /\ settings.calibration_timestamp = session.settings_at_start.calibration_timestamp
        /\ settings.last_calibrated_device
               = session.settings_at_start.last_calibrated_device
        /\ settings.silence_threshold = session.settings_at_start.silence_threshold
        /\ save_calls = session.saves_at_start
        /\ ~session.calibrated
        /\ session.processed = 0
        /\ session.puts = 0
        /\ pc \in {"finally", "exit", "done", "start"}

\* C11 witness: a calibration read failed after other calibration frames
\* had been read, and the thread has finished.
C11_Witness ==
    /\ session.end = "calibration error"
    /\ session.reads
    /\ pc = "done"
    /\ stream = "closed"

\* C12: the capture thread is never blocked by the consumer: whenever it is
\* about to read a frame, the frame can be read, its energy level put on
\* the energy queue and a finished segment put on the segment queue,
\* whatever the consumer is doing and whatever the queues hold.
C12_CaptureNeverBlocked ==
    (pc = "read" /\ nread < limits.frames) =>
        ENABLED (\E e \in limits.energies, dt \in limits.times : ProcessFrame(e, dt, TRUE))

\* C12 witness: while the consumer is in the transcription of a segment,
\* the capture thread has recorded and enqueued a later segment and has put
\* energy levels on the energy queue.
C12_Witness ==
    /\ cpc = "process"
    /\ speech_queue # <<>>
    /\ speech_queue[Len(speech_queue)].timestamp > current_time
    /\ speech_queue[Len(speech_queue)].segment_id > segment.segment_id
    /\ energy_queue # <<>>

\* The ids of the segments the consumer has taken, in the order of the
\* takes, and of those it has passed to the transcriber.
RECURSIVE EventIds(_, _)
EventIds(log, event) ==
    IF log = <<>> THEN <<>>
    ELSE IF Head(log).event = event
         THEN <<Head(log).id>> \o EventIds(Tail(log), event)
         ELSE EventIds(Tail(log), event)

Increasing(ids) == \A i, j \in 1..Len(ids) : i < j => ids[i] < ids[j]

\* C13 (safety part): the segments are taken at most once and in the order
\* of their ids, and every segment the consumer has finished with was
\* passed to the transcriber.
C13_TakenOnceInOrderAndTranscribed ==
    /\ Increasing(EventIds(consumed, "taken"))
    /\ EventIds(consumed, "dropped") = <<>>

\* The ids of the segments passed to the transcriber before entry n of
\* the consumer's log.
TranscribedBefore(n) ==
    { consumed[k].id : k \in { j \in 1..(n - 1) : consumed[j].event = "transcribed" } }

\* C14: when the consumer loop exits, the segment queue is empty, and every
\* segment that was in the queue when the run flag was cleared has been
\* transcribed.
C14_ExitOnlyWhenDrained ==
    \A i \in 1..Len(consumed) :
        consumed[i].event = "exit" =>
            /\ consumed[i].queued = <<>>
            /\ \A j \in 1..(i - 1) :
                  consumed[j].event = "stop" =>
                      \A k \in 1..Len(consumed[j].queued) :
                          consumed[j].queued[k] \in TranscribedBefore(i)

\* The step in which the consumer finishes a segment whose cleaned text f2
\* is not empty and ends a sentence, less than sentence_pause_threshold
\* after the arrival of the previous fragment f1, itself not empty.
C15_CloseFragmentsArrive ==
    /\ cpc = "process"
    /\ Len(arrivals') = Len(arrivals) + 1
    /\ arrivals # <<>>
    /\ arrivals[Len(arrivals)].text # <<>>
    /\ arrivals'[Len(arrivals')].text # <<>>
    /\ EndsSentence(arrivals'[Len(arrivals')].text)
    /\ arrivals'[Len(arrivals')].time - arrivals[Len(arrivals)].time
           < settings.sentence_pause_threshold

\* That step sends one string, which ends with f1 and f2 joined by a space
\* and followed by one space.
C15_SentTogether ==
    LET pair == arrivals[Len(arrivals)].text \o <<" ">>
                    \o arrivals'[Len(arrivals')].text \o <<" ">>
        sent == text_sink'[Len(text_sink')]
    IN  /\ Len(text_sink') = Len(text_sink) + 1
        /\ Len(sent) >= Len(pair)
        /\ SubSeq(sent, Len(sent) - Len(pair) + 1, Len(sent)) = pair

\* C15 as stated: two consecutive non-empty fragments that arrive less than
\* sentence_pause_threshold apart, the second ending a sentence, are sent
\* to the sink together in one string.
C15_PairClaim == [][C15_CloseFragmentsArrive => C15_SentTogether]_vars

\* C15 amended: the same, provided the first fragment is still in the
\* sentence buffer when the second arrives.
C15_BufferedPairSentTogether ==
    [][ ( /\ C15_CloseFragmentsArrive
          /\ sentence_buffer # <<>>
          /\ sentence_buffer[Len(sentence_buffer)].id = arrivals[Len(arrivals)].id )
        => C15_SentTogether ]_vars

\* C15 witness: two consecutive non-empty fragments have been sent in one
\* string, joined by a space and followed by one space.
C15_Witness ==
    \E i \in 1..Len(sink_log), n \in 1..(Len(arrivals) - 1) :
        /\ sink_log[i] = <<arrivals[n].id, arrivals[n + 1].id>>
        /\ arrivals[n].text # <<>>
        /\ arrivals[n + 1].text # <<>>
        /\ text_sink[i] = arrivals[n].text \o <<" ">> \o arrivals[n + 1].text \o <<" ">>

\* The fragments of the groups of a log of finalizes, in order.
RECURSIVE Flatten(_)
Flatten(groups) ==
    IF groups = <<>> THEN <<>> ELSE Head(groups) \o Flatten(Tail(groups))

\* The fragment that arrived with segment id.
ArrivalOf(id) == CHOOSE a \in { arrivals[n] : n \in 1..Len(arrivals) } : a.id = id

\* The string a finalize of the fragments of group sends.
StringOf(group) ==
    Join([k \in 1..Len(group) |-> ArrivalOf(group[k])]) \o <<" ">>

\* C16: the fragments sent so far, in the order of the strings, followed by
\* the fragments in the sentence buffer, are exactly the fragments that
\* arrived, in arrival order (so no fragment is sent twice or out of order,
\* and a finalized fragment is no longer in the buffer); each finalize has
\* sent exactly one string, made of the fragments it finalized.
C16_SentIsPrefixOfArrivals ==
    /\ Flatten(sink_log) \o Ids(sentence_buffer) = Ids(arrivals)
    /\ Len(text_sink) = Len(sink_log)
    /\ \A i \in 1..Len(sink_log) :
          /\ sink_log[i] # <<>>
          /\ text_sink[i] = StringOf(sink_log[i])

\* C16 witness: three fragments arrived, two were sent together in one
\* string, and another string was sent by a timeout check.
C16_Witness ==
    /\ Len(arrivals) = 3
    /\ Len(sink_log) = 2
    /\ \E i \in 1..2 : Len(sink_log[i]) = 2
    /\ sentence_buffer = <<>>
    /\ last_transcription_time = NoneVal

\* C17: with a consumer that keeps running, a non-empty sentence buffer is
\* eventually finalized, whether or not another segment arrives; and a
\* timeout check that finds the buffer non-empty and its last update more
\* than sentence_pause_threshold in the past finalizes it in that step.
C17_BufferEventuallySent ==
    /\ (sentence_buffer # <<>>) ~> (sentence_buffer = <<>>)
    /\ [][ ( /\ cpc = "timeout"
             /\ cpc' = "loop"
             /\ sentence_buffer # <<>>
             /\ last_transcription_time # NoneVal
             /\ now - last_transcription_time > settings.sentence_pause_threshold )
           => ( /\ sentence_buffer' = <<>>
                /\ text_sink' = Append(text_sink, Join(sentence_buffer) \o <<" ">>) ) ]_vars

\* C17 witness: the last fragment that arrived was finalized by a timeout
\* check on an empty queue, not by an arrival.
C17_Witness ==
    /\ sink_log # <<>>
    /\ arrivals # <<>>
    /\ sink_log[Len(sink_log)][Len(sink_log[Len(sink_log)])] = arrivals[Len(arrivals)].id
    /\ last_transcription_time = NoneVal
    /\ sentence_buffer = <<>>
    /\ speech_queue = <<>>
    /\ segment = NoSegment

\* The settings values the capture loop reads on each frame, and the
\* calibration fields.
LoopFields(s) ==
    << s.silence_threshold, s.sentence_pause_threshold, s.sentence_energy_threshold,
       s.min_sentence_length, s.max_sentence_length, s.speech_energy_threshold,
       s.calibration_energy, s.calibration_timestamp, s.last_calibrated_device >>

\* C18: while the capture loop runs, the settings values it reads are those
\* in force when the adaptive threshold was set at the end of calibration.
C18_LoopSettingsConstant ==
    pc \in {"loop", "read", "post"} =>
        LoopFields(settings) = LoopFields(session.loop_settings)

\* The fields C19 names.
RoundTripFields(s) ==
    << s.calibration_energy, s.calibration_timestamp, s.last_calibrated_device,
       s.speech_energy_threshold, s.silence_threshold, s.input_device_index >>

\* C19: a fresh Settings updated from the to_dict() of a Settings s has the
\* calibration energy, calibration timestamp, calibrated device, speech
\* energy threshold, silence threshold and input device index of s.
C19_RoundTripKeepsFields ==
    [][changes' # changes => RoundTripFields(settings') = RoundTripFields(settings)]_vars

\* C19 witness: a Settings whose calibration energy and input device index
\* are None, and whose thresholds are not the defaults, has been copied.
C19_Witness ==
    /\ changes = 1
    /\ settings.calibration_energy = NoneVal
    /\ settings.input_device_index = NoneVal
    /\ settings.last_calibrated_device = 1
    /\ settings.silence_threshold = 100
    /\ settings.speech_energy_threshold = 5

\* C20: a segment on which a preprocessing stage failed has still been
\* preprocessed (the failing stage yielding its input) and passed to the
\* transcriber.
C20_FailedStageYieldsInput ==
    \A i \in 1..Len(consumed) :
        (consumed[i].event \in {"transcribed", "dropped"} /\ consumed[i].fault # "none")
            => consumed[i].event = "transcribed"

\* C21: transcribe never raises; and the step in which the consumer
\* finishes a segment whose transcription failed leaves the sentence buffer
\* and the last-update time as they are, sends nothing, and goes on with
\* the rest of the iteration.
C21_TranscriptionFailureIsEmptyText ==
    /\ [](\A i \in 1..Len(consumed) : consumed[i].event # "raised")
    /\ [][ ( /\ Len(consumed') = Len(consumed) + 1
             /\ consumed'[Len(consumed')].event \in {"transcribed", "raised"}
             /\ consumed'[Len(consumed')].failed )
           => ( /\ consumed'[Len(consumed')].event = "transcribed"
                /\ UNCHANGED <<sentence_buffer, last_transcription_time, text_sink,
                               arrivals, is_processing_queue>>
                /\ cpc' = "energy" ) ]_vars

\* C21 witness: a fragment is in the sentence buffer, the transcription of
\* the next segment failed, and the consumer is back at the top of its loop.
C21_Witness ==
    /\ Len(consumed) >= 4
    /\ consumed[Len(consumed)].event = "transcribed"
    /\ consumed[Len(consumed)].failed
    /\ sentence_buffer # <<>>
    /\ cpc = "loop"

\* C22: from the step in which the capture loop sees the termination signal
\* (at the loop condition or after a frame) until the thread has ended, no
\* segment is created or put on the queue, and the frames buffered while
\* Speaking are gone when start_detection returns.
C22_TerminationDiscardsPartialBuffer ==
    [][ /\ ( \/ pc \in {"loop", "post"} /\ pc' = "finally"
             \/ session.end = "stopped" /\ pc \in {"finally", "exit", "done"} )
           => ( /\ seg_log' = seg_log
                /\ segment_counter' = segment_counter
                /\ Len(speech_queue') <= Len(speech_queue) )
        /\ (pc = "finally" /\ pc' = "exit") => frames' = <<>> ]_vars

\* C22 witness: the session was stopped while Speaking, with more frames
\* buffered than the shortest phrase and a duration a sentence cut accepts.
C22_Witness ==
    /\ pc = "done"
    /\ session.end = "stopped"
    /\ last_frame.session = session.id
    /\ last_frame.speaking
    /\ last_frame.cut = "none"
    /\ last_frame.buffered > chunks.min_phrase_chunks
    /\ last_frame.duration >= settings.min_sentence_length

\* C23: when a calibration run has read all its frames and computed the
\* baseline, baseline_energy (and the value stored in settings) is strictly
\* greater than 0.
C23_BaselinePositive ==
    (pc = "threshold" /\ session.calibrated)
        => (baseline_energy > 0 /\ settings.calibration_energy > 0)

\* C24: while a transcription blocks the consumer, the energy readings
\* of the frames captured since the segment was cut do not pile up in the
\* energy queue: once two or more frames have been captured meanwhile, at
\* least one of their readings has been dropped or merged.
C24_EnergyReadingsBounded ==
    (cpc = "process" /\ segment.audio_data # <<>>)
        => LET since == nread - segment.audio_data[Len(segment.audio_data)]
           IN  since >= 2 => Len(energy_queue) < since

\* C25: a step in which a fragment with non-empty cleaned text arrives
\* while no last-update time is set, or at least sentence_pause_threshold
\* after it, sends the fragments buffered before (if any) as one string
\* joined by spaces, leaves exactly the new fragment in the buffer, and
\* sends the new fragment in no string.
C25_DiscontinuityStartsNewBuffer ==
    [][ ( /\ Len(arrivals') = Len(arrivals) + 1
          /\ arrivals'[Len(arrivals')].text # <<>>
          /\ \/ last_transcription_time = NoneVal
             \/ current_time - last_transcription_time
                    >= settings.sentence_pause_threshold )
        => LET new == arrivals'[Len(arrivals')]
           IN  /\ sentence_buffer' = << [id |-> new.id, text |-> new.text] >>
               /\ IF sentence_buffer # <<>>
                  THEN /\ text_sink' = Append(text_sink, Join(sentence_buffer) \o <<" ">>)
                       /\ sink_log' = Append(sink_log, Ids(sentence_buffer))
                  ELSE text_sink' = text_sink /\ sink_log' = sink_log
               /\ \A i \in 1..Len(sink_log') :
                     \A j \in 1..Len(sink_log'[i]) : sink_log'[i][j] # new.id
               /\ EndsSentence(new.text) ]_vars

\* C25 witness: the last segment's fragment arrived after a pause, the
\* fragment buffered before it was sent in that step, and the new one,
\* which ends a sentence, is alone in the buffer.
C25_Witness ==
    /\ consumed # <<>>
    /\ consumed[Len(consumed)].event = "transcribed"
    /\ consumed[Len(consumed)].sent >= 1
    /\ Len(sentence_buffer) = 1
    /\ sentence_buffer[1].id = consumed[Len(consumed)].id
    /\ EndsSentence(sentence_buffer[1].text)
    /\ text_sink # <<>>

\* C26: a frame on which a cut is decided puts exactly one segment on the
\* queue, holding every buffered frame and the frame itself, and leaves the
\* state machine Idle with no frames and no start time; and Speaking turns
\* to Idle only with such a put or when the session ends.
C26_CutEmitsWholeBuffer ==
    [][ /\ (nread' = nread + 1 /\ pc' = "post" /\ last_frame'.cut # "none")
           => ( /\ Len(speech_queue') = Len(speech_queue) + 1
                /\ Len(seg_log') = Len(seg_log) + 1
                /\ LET put == speech_queue'[Len(speech_queue')]
                   IN  /\ Len(put.audio_data) = last_frame'.buffered
                       /\ put.audio_data[Len(put.audio_data)] = nread'
                       /\ is_speaking =>
                             put.audio_data = Append(frames, nread')
                       /\ put.segment_id = segment_counter
                /\ ~is_speaking'
                /\ frames' = <<>>
                /\ sentence_start_time' = NoneVal )
        /\ (is_speaking /\ ~is_speaking')
           => ( \/ /\ Len(speech_queue') = Len(speech_queue) + 1
                   /\ last_frame'.cut \in {"sentence", "end of speech"}
                \/ pc = "finally" /\ pc' = "exit" ) ]_vars

\* C26 witness: two cuts for different reasons have each put a segment,
\* the second of several frames, and the state machine is Idle again in a
\* running session.
C26_Witness ==
    /\ pc = "post"
    /\ ~is_speaking /\ frames = <<>> /\ sentence_start_time = NoneVal
    /\ last_frame.cut # "none"
    /\ Len(seg_log) = 2 /\ Len(speech_queue) = 2
    /\ seg_log[1].reason # seg_log[2].reason
    /\ Len(speech_queue[2].audio_data) >= 2

\* C27: the step that completes a fresh calibration writes the baseline,
\* the time and the session's device index to settings and saves once, and
\* no frame has been processed by then; the session saves nothing else. A
\* later session on the same device, looked up within 24 hours of a
\* calibration made by the session before it, takes that baseline from the
\* cache and reads no calibration frame.
C27_CalibrationStoredThenReused ==
    /\ [][ (~session.calibrated /\ session'.calibrated)
           => ( /\ Len(baseline_frames) = CALIBRATION_DURATION_CHUNKS
                /\ baseline_energy' = BaselineMean(baseline_frames)
                /\ settings'.calibration_energy = baseline_energy'
                /\ settings'.calibration_timestamp = now
                /\ settings'.last_calibrated_device = device_index
                /\ save_calls' = save_calls + 1
                /\ session.processed = 0
                /\ pc' = "threshold" ) ]_vars
    /\ [](save_calls = session.saves_at_start + (IF session.calibrated THEN 1 ELSE 0))
    /\ []( ( /\ session.id >= 2
             /\ session.prev_calibrated
             /\ session.device = session.prev_device
             /\ session.lookup # "none"
             /\ session.lookup_time - session.cache[2] <= CacheMaxAge )
           => ( /\ session.lookup = "cached"
                /\ ~session.reads
                /\ ~session.calibrated
                /\ session.cache[1] = session.prev_baseline
                /\ pc \in {"loop", "read", "post"}
                      => session.baseline = session.prev_baseline ) )

\* C27 witness: the second session runs on the device of the first, which
\* calibrated, and is in its main loop with the cached baseline.
C27_Witness ==
    /\ session.id = 2
    /\ session.prev_calibrated
    /\ session.device = session.prev_device
    /\ session.lookup = "cached"
    /\ session.baseline = session.prev_baseline
    /\ session.baseline > 0
    /\ save_calls = 1
    /\ pc = "read"

\* C28: in a session that ended because termination was requested during
\* calibration, the calibration fields and the threshold in settings are
\* those the session started with, nothing was saved, no frame was
\* processed, the stream is closed once the cleanup has run, and no error
\* is reported for the session.
C28_CalibrationAbortClaim ==
    session.end = "calibration terminated" =>
        /\ settings.calibration_energy = session.settings_at_start.calibration_energy
        /\ settings.calibration_timestamp = session.settings_at_start.calibration_timestamp
        /\ settings.last_calibrated_device
               = session.settings_at_start.last_calibrated_device
        /\ settings.silence_threshold = session.settings_at_start.silence_threshold
        /\ save_calls = session.saves_at_start
        /\ ~session.calibrated
        /\ session.processed = 0
        /\ session.puts = 0
        /\ pc \in {"finally", "exit", "done", "start"}
        /\ pc \in {"exit", "done", "start"} => stream = "closed"
        /\ ~session.error_reported

LastOf(s, n) == IF Len(s) <= n THEN s ELSE SubSeq(s, Len(s) - n + 1, Len(s))

\* C30: every processed frame appends its energy to the smoothing window
\* and keeps the last W entries, on frames that cut a segment as on any
\* other; the window holds min(n, W) energies after n frames of a session;
\* and the reading put for the frame, which is what the speech test
\* compares with the threshold, is the mean of the window (kept as its sum
\* and its length).
C30_WindowHoldsLastEnergies ==
    /\ [](/\ Len(current_energy_levels) <= ENERGY_SMOOTHING_WINDOW
          /\ pc \in {"loop", "read", "post"} =>
                Len(current_energy_levels)
                    = Min(session.processed, ENERGY_SMOOTHING_WINDOW))
    /\ [][ (nread' = nread + 1 /\ pc' = "post")
           => ( /\ current_energy_levels'
                      = LastOf(Append(current_energy_levels, last_frame'.energy),
                               ENERGY_SMOOTHING_WINDOW)
                /\ energy_queue'[Len(energy_queue')]
                      = <<SumSeq(current_energy_levels'), Len(current_energy_levels')>>
                /\ last_frame'.levels = current_energy_levels' ) ]_vars

\* C30 witness: more frames than the window holds have been processed, a
\* cut has been made by then, and the full window holds loud and silent
\* frames.
C30_Witness ==
    /\ pc = "post"
    /\ session.processed > ENERGY_SMOOTHING_WINDOW
    /\ Len(current_energy_levels) = ENERGY_SMOOTHING_WINDOW
    /\ seg_log # <<>>
    /\ last_frame.cut # "none"
    /\ \E i, j \in 1..ENERGY_SMOOTHING_WINDOW :
          current_energy_levels[i] = 0 /\ current_energy_levels[j] = 1200

\* C31: in the main loop of a session the pre-roll ring holds the last
\* min(n, P) frames read, P = pre_padding_chunks, and no session ends on an
\* exception raised by the update of the ring.
C31_RingHoldsLastFrames ==
    /\ pc \in {"loop", "read", "post"} =>
          /\ Len(circular_buffer) = Min(session.processed, chunks.pre_padding_chunks)
          /\ \A i \in 1..Len(circular_buffer) :
                circular_buffer[i] = nread - Len(circular_buffer) + i
    /\ session.end # "exception"

\* C32: with min_sentence_length <= max_sentence_length, a frame on which
\* the duration since the onset has reached max_sentence_length cuts the
\* segment, so the state machine is never Speaking with such a duration,
\* and the frames buffered or emitted are at most the ring's size plus one
\* plus the frames read from the onset on.
C32_MaxLengthBoundsBuffer ==
    /\ [](settings.min_sentence_length <= settings.max_sentence_length)
    /\ []( is_speaking =>
              /\ last_frame.speaking /\ last_frame.n = nread
              /\ last_frame.duration < settings.max_sentence_length
              /\ Len(frames) <= chunks.pre_padding_chunks + 1
                                   + (nread - session.onset_frame) )
    /\ [](\A i \in 1..Len(seg_log) :
              Len(seg_log[i].audio_data)
                  <= chunks.pre_padding_chunks + 1
                     + (seg_log[i].frame - seg_log[i].onset_frame))
    /\ [][ ( /\ nread' = nread + 1 /\ pc' = "post"
             /\ last_frame'.speaking
             /\ last_frame'.duration >= settings.max_sentence_length )
           => ( /\ last_frame'.cut = "sentence"
                /\ ~is_speaking' /\ frames' = <<>>
                /\ Len(speech_queue') = Len(speech_queue) + 1 ) ]_vars

\* C32 witness: every frame since the onset was speech, and the frame on
\* which the duration reached max_sentence_length cut the segment.
C32_Witness ==
    /\ pc = "post"
    /\ last_frame.cut = "sentence"
    /\ last_frame.reason = "max length"
    /\ last_frame.silence = 0
    /\ last_frame.duration >= settings.max_sentence_length
    /\ ~is_speaking
    /\ Len(speech_queue) = 1
    /\ Len(speech_queue[1].audio_data)
          = chunks.pre_padding_chunks + 1 + (nread - session.onset_frame)

\* C33: every fragment that entered the sentence buffer has a non-empty
\* cleaned text, and every string sent to the text sink has a character
\* that is not a space.
C33_OnlyNonEmptyFragments ==
    /\ \A i \in 1..Len(arrivals) : arrivals[i].text # <<>>
    /\ \A i \in 1..Len(sentence_buffer) : sentence_buffer[i].text # <<>>
    /\ \A i \in 1..Len(text_sink) :
          \E k \in 1..Len(text_sink[i]) : text_sink[i][k] # " "

\* C34: the first segment a listening session emits has segment_id 0.
C34_FirstSegmentIsZero ==
    \A i \in 1..Len(seg_log) :
        (i = 1 \/ seg_log[i - 1].session # seg_log[i].session)
            => seg_log[i].segment_id = 0

\* C35: at most one detection thread and at most one consumer thread have
\* been started and not finished, and they are the threads whose positions
\* the state holds.
C35_OneThreadOfEachKind ==
    /\ threads.detection \in {0, 1}
    /\ threads.consumer \in {0, 1}
    /\ (threads.detection = 1) = ThreadAlive
    /\ (threads.consumer = 1) = (cpc \notin {"none", "done"})

\* C35 witness: listening was switched off and on again while the
\* detection thread, which has seen the termination event, was still
\* alive; no second thread was started, and the consumer is running.
C35_Witness ==
    /\ active
    /\ pc \in {"finally", "exit"}
    /\ session.end = "stopped"
    /\ threads.detection = 1
    /\ threads.consumer = 1

\* No frame occurs twice in the audio.
NoFrameTwice(audio_data) ==
    \A i, j \in 1..Len(audio_data) : i # j => audio_data[i] # audio_data[j]

\* The two audios have no frame in common.
NoCommonFrame(a, b) ==
    \A i \in 1..Len(a) : \A j \in 1..Len(b) : a[i] # b[j]

\* C36: no emitted segment holds a captured frame twice, and no two
\* segments of a session hold the same captured frame.
C36_FramesEmittedOnce ==
    /\ \A i \in 1..Len(seg_log) : NoFrameTwice(seg_log[i].audio_data)
    /\ \A i, j \in 1..Len(seg_log) :
          (i < j /\ seg_log[i].session = seg_log[j].session)
              => NoCommonFrame(seg_log[i].audio_data, seg_log[j].audio_data)

\* C37: the end-of-speech branch is taken only on a frame that is not
\* speech, the silent-run counter is 0 on a speech frame, and the frame
\* that starts a segment does not end it.
C37_EndOfSpeechOnlyOnSilence ==
    (last_frame.speaking /\ last_frame.session = session.id) =>
        /\ last_frame.cut \in {"end of speech", "dropped"}
              => ~IsSpeech(last_frame.levels, last_frame.threshold)
        /\ IsSpeech(last_frame.levels, last_frame.threshold) => last_frame.silent = 0
        /\ last_frame.cut # "none" => last_frame.was_speaking

C39_BufferEmptyAtConsumerExit ==
    /\ cpc = "done" => sentence_buffer = <<>>
    /\ \A i \in 1..Len(consumed) :
          consumed[i].event = "exit" => consumed[i].buffered = <<>>

\* C40: every step that switches listening on leaves a detection thread
\* that is alive and has not left its capture loop, and while listening is
\* on no detection thread has ended its session because termination was
\* requested.
C40_SessionForEveryListening ==
    [][ /\ (~active /\ active') => pc' \notin {"none", "finally", "exit", "done"}
        /\ (active' /\ pc' \in {"finally", "exit", "done"})
              => session'.end \notin {"stopped", "calibration terminated"} ]_vars

====
